---- MODULE Spec2Model ----
(***************************************************************************)
(* Grid-world Markov Decision Process of src/MDP: the Maze model           *)
(* (maze.py, mdp.py) and the two solvers of algorithms.py, value_iteration *)
(* and policy_iteration.                                                   *)
(*                                                                         *)
(* Numbers.  The source computes with binary64 floats.  Here every         *)
(* quantity is an exact rational kept as an integer numerator over a       *)
(* denominator that the context fixes:                                     *)
(*   - a probability is in units of 1/ProbDen (0.8 is 8, 0.1 is 1);        *)
(*   - a reward is in units of 1/RewDen (-0.04 is -1, 1.0 is 25);          *)
(*   - discount and max_error are records [num, den];                      *)
(*   - a utility produced by n Bellman updates is in units of 1/Unit(n),   *)
(*     Unit(n) = RewDen * (ProbDen * discount.den)^n, so that              *)
(*     R(s) + discount * SUM p * U is computed without rounding.           *)
(* With a discount of denominator 2 the numerators stay below 2^31 for the *)
(* sweeps of the model and are integers.  With the configured discount,    *)
(* 99/100, they outgrow 2^31 in the third sweep and are written as a sign  *)
(* and a list of limbs (section "Wide numerators").                        *)
(* The rounding of the float sum of the probabilities, 0.8 + 0.1 + 0.1,    *)
(* is computed bit by bit in the section "binary64".                       *)
(* A maze whose discount and rewards are given as floats is solved in the  *)
(* floats of the source instead: every product, sum and quotient of the    *)
(* solvers is rounded to the nearest binary64 value, as the interpreter    *)
(* rounds it.                                                              *)
(***************************************************************************)
EXTENDS Integers, Sequences, FiniteSets, TLC

VARIABLES
    maze,   \* the Maze object: grid, reward_mapping, height, width, states, actions, discount
    pc,     \* "idle" (constructed, nothing called yet) | "value_iteration" |
            \* "policy_iteration" (inside the solver's loop) | "done" (the call has ended)
    call,   \* the call being executed or last executed: [op, ...arguments]
    ret,    \* what the call returned or raised; NoResult until it ends
    vi,     \* local variables of value_iteration
    pi      \* local variables of policy_iteration

vars == <<maze, pc, call, ret, vi, pi>>

(***************************************************************************)
(* Bounds of the model                                                     *)
(***************************************************************************)
MaxRows == 2
MaxCols == 2
MaxCells == 4
MaxIterations == 4
MaxWideSweeps == 30

(***************************************************************************)
(* Units of the exact arithmetic                                           *)
(***************************************************************************)
ProbDen == 10
RewDen == 25

None == "None"

Abs(x) == IF x < 0 THEN -x ELSE x

RECURSIVE Pow(_, _)
Pow(b, n) == IF n <= 0 THEN 1 ELSE b * Pow(b, n - 1)

(***************************************************************************)
(* Wide numerators                                                         *)
(*                                                                         *)
(* A magnitude is a natural number written in base LimbBase, least         *)
(* significant limb first, without leading zero limbs; zero is <<>>.  A    *)
(* wide number is [neg, mag]; zero has neg = FALSE.  A magnitude is        *)
(* multiplied only by factors of at most 2^31 / LimbBase, which covers     *)
(* every probability, discount numerator and unit step of the model.       *)
(***************************************************************************)
LimbBits == 15
LimbBase == 2^LimbBits

MagLimb(a, i) == IF i <= Len(a) THEN a[i] ELSE 0

RECURSIVE MagStrip(_)
MagStrip(a) ==
    IF a # <<>> /\ a[Len(a)] = 0 THEN MagStrip(SubSeq(a, 1, Len(a) - 1)) ELSE a

\* the magnitude of a natural number below 2^31
MagOf(n) == MagStrip(<<n % LimbBase, (n \div LimbBase) % LimbBase, n \div (LimbBase * LimbBase)>>)

RECURSIVE MagAddFrom(_, _, _, _, _)
MagAddFrom(a, b, i, carry, acc) ==
    IF i > Len(a) /\ i > Len(b)
    THEN IF carry = 0 THEN acc ELSE Append(acc, carry)
    ELSE MagAddFrom(a, b, i + 1,
                    (MagLimb(a, i) + MagLimb(b, i) + carry) \div LimbBase,
                    Append(acc, (MagLimb(a, i) + MagLimb(b, i) + carry) % LimbBase))

MagAdd(a, b) == MagAddFrom(a, b, 1, 0, <<>>)

\* a - b for a >= b
RECURSIVE MagSubFrom(_, _, _, _, _)
MagSubFrom(a, b, i, borrow, acc) ==
    IF i > Len(a) THEN MagStrip(acc)
    ELSE MagSubFrom(a, b, i + 1,
                    IF a[i] - MagLimb(b, i) - borrow < 0 THEN 1 ELSE 0,
                    Append(acc, (a[i] - MagLimb(b, i) - borrow + LimbBase) % LimbBase))

MagSub(a, b) == MagSubFrom(a, b, 1, 0, <<>>)

\* a < b on magnitudes of the same length, from limb i down
RECURSIVE MagLessFrom(_, _, _)
MagLessFrom(a, b, i) ==
    IF i = 0 THEN FALSE
    ELSE IF a[i] # b[i] THEN a[i] < b[i]
    ELSE MagLessFrom(a, b, i - 1)

MagLess(a, b) ==
    IF Len(a) # Len(b) THEN Len(a) < Len(b) ELSE MagLessFrom(a, b, Len(a))

\* k * a for 0 < k <= 2^31 / LimbBase
RECURSIVE MagScaleFrom(_, _, _, _, _)
MagScaleFrom(k, a, i, carry, acc) ==
    IF i > Len(a)
    THEN IF carry = 0 THEN acc ELSE Append(acc, carry)
    ELSE MagScaleFrom(k, a, i + 1,
                      (k * a[i] + carry) \div LimbBase,
                      Append(acc, (k * a[i] + carry) % LimbBase))

MagScale(k, a) == MagScaleFrom(k, a, 1, 0, <<>>)

\* a * 2^k
MagShiftLeft(a, k) ==
    IF a = <<>> THEN <<>>
    ELSE [i \in 1..(k \div LimbBits) |-> 0] \o MagScale(2^(k % LimbBits), a)

\* a \div 2^k for k below LimbBits
MagShiftRightBits(a, k) ==
    MagStrip([i \in 1..Len(a) |->
                 (a[i] \div 2^k) + (MagLimb(a, i + 1) % 2^k) * 2^(LimbBits - k)])

\* a \div 2^k
MagShiftRight(a, k) ==
    IF k \div LimbBits >= Len(a) THEN <<>>
    ELSE MagShiftRightBits(SubSeq(a, k \div LimbBits + 1, Len(a)), k % LimbBits)

\* a % 2^k
MagLowBits(a, k) ==
    MagStrip([i \in 1..(k \div LimbBits + 1) |->
                 IF i <= k \div LimbBits THEN MagLimb(a, i)
                 ELSE MagLimb(a, i) % 2^(k % LimbBits)])

\* the number of bits of a limb
RECURSIVE LimbBitLen(_)
LimbBitLen(n) == IF n = 0 THEN 0 ELSE 1 + LimbBitLen(n \div 2)

MagBitLen(a) == IF a = <<>> THEN 0 ELSE LimbBits * (Len(a) - 1) + LimbBitLen(a[Len(a)])

\* a * b
RECURSIVE MagMulFrom(_, _, _, _)
MagMulFrom(a, b, i, acc) ==
    IF i > Len(b) THEN acc
    ELSE MagMulFrom(a, b, i + 1,
                    IF b[i] = 0 THEN acc
                    ELSE MagAdd(acc, [j \in 1..(i - 1) |-> 0] \o MagScale(b[i], a)))

MagMul(a, b) == IF a = <<>> THEN <<>> ELSE MagMulFrom(a, b, 1, <<>>)

WideOf(n) == [neg |-> n < 0, mag |-> MagOf(Abs(n))]

WideAdd(x, y) ==
    IF x.neg = y.neg THEN [neg |-> x.neg, mag |-> MagAdd(x.mag, y.mag)]
    ELSE IF x.mag = y.mag THEN WideOf(0)
    ELSE IF MagLess(x.mag, y.mag) THEN [neg |-> y.neg, mag |-> MagSub(y.mag, x.mag)]
    ELSE [neg |-> x.neg, mag |-> MagSub(x.mag, y.mag)]

\* k * x for an integer k with |k| <= 2^31 / LimbBase
WideScale(k, x) ==
    IF k = 0 \/ x.mag = <<>> THEN WideOf(0)
    ELSE [neg |-> (k < 0) # x.neg, mag |-> MagScale(Abs(k), x.mag)]

WideLess(x, y) ==
    IF x.neg # y.neg THEN x.neg
    ELSE IF x.neg THEN MagLess(y.mag, x.mag)
    ELSE MagLess(x.mag, y.mag)

(***************************************************************************)
(* binary64, the float of the interpreter: [neg, mag, exp] stands for      *)
(* (-1)^neg * mag * 2^exp with a magnitude of exactly 53 bits, and zero is *)
(* FloatZero.  Every operation rounds its exact result to the nearest      *)
(* float, ties to even.  The utilities of the solvers stay far inside the  *)
(* normal range, so the exponent is not limited.                           *)
(***************************************************************************)
FloatZero == [neg |-> FALSE, mag |-> <<>>, exp |-> 0]

\* q, or q + 1 when the bits cut off (rem, of `cut` bits) are above half, or are half with q odd
FloatRoundUp(q, rem, cut) ==
    IF MagLess(MagShiftLeft(<<1>>, cut - 1), rem)
          \/ (rem = MagShiftLeft(<<1>>, cut - 1) /\ MagLimb(q, 1) % 2 = 1)
    THEN MagAdd(q, <<1>>)
    ELSE q

\* the float of a mantissa of at most 54 bits
FloatPack(neg, m, exp) ==
    IF MagBitLen(m) = 54 THEN [neg |-> neg, mag |-> MagShiftRight(m, 1), exp |-> exp + 1]
    ELSE [neg |-> neg, mag |-> m, exp |-> exp]

\* the float nearest to (-1)^neg * m * 2^exp for a magnitude m of `len` bits, ties to even
FloatRoundLen(neg, m, exp, len) ==
    IF len = 0 THEN FloatZero
    ELSE IF len <= 53
    THEN [neg |-> neg, mag |-> MagShiftLeft(m, 53 - len), exp |-> exp - (53 - len)]
    ELSE FloatPack(neg,
                   FloatRoundUp(MagShiftRight(m, len - 53), MagLowBits(m, len - 53), len - 53),
                   exp + (len - 53))

FloatRound(neg, m, exp) == FloatRoundLen(neg, m, exp, MagBitLen(m))

FloatOfInt(n) == FloatRound(n < 0, MagOf(Abs(n)), 0)

FloatNeg(x) == IF x.mag = <<>> THEN x ELSE [x EXCEPT !.neg = ~x.neg]

FloatAbs(x) == [x EXCEPT !.neg = FALSE]

FloatMul(x, y) ==
    IF x.mag = <<>> \/ y.mag = <<>> THEN FloatZero
    ELSE FloatRound(x.neg # y.neg, MagMul(x.mag, y.mag), x.exp + y.exp)

\* (-1)^xneg * xm + (-1)^yneg * ym, both over 2^exp, rounded
FloatAddAligned(xneg, xm, yneg, ym, exp) ==
    IF xneg = yneg THEN FloatRound(xneg, MagAdd(xm, ym), exp)
    ELSE IF xm = ym THEN FloatZero
    ELSE IF MagLess(xm, ym) THEN FloatRound(yneg, MagSub(ym, xm), exp)
    ELSE FloatRound(xneg, MagSub(xm, ym), exp)

FloatAdd(x, y) ==
    IF x.mag = <<>> THEN y
    ELSE IF y.mag = <<>> THEN x
    ELSE IF x.exp >= y.exp
    THEN FloatAddAligned(x.neg, MagShiftLeft(x.mag, x.exp - y.exp), y.neg, y.mag, y.exp)
    ELSE FloatAddAligned(x.neg, x.mag, y.neg, MagShiftLeft(y.mag, y.exp - x.exp), x.exp)

FloatSub(x, y) == FloatAdd(x, FloatNeg(y))

\* x < y for floats that are not negative
FloatLessMagnitude(x, y) ==
    IF y.mag = <<>> THEN FALSE
    ELSE IF x.mag = <<>> THEN TRUE
    ELSE IF x.exp # y.exp THEN x.exp < y.exp
    ELSE MagLess(x.mag, y.mag)

FloatLess(x, y) ==
    IF x.neg # y.neg THEN x.neg
    ELSE IF x.neg THEN FloatLessMagnitude(y, x)
    ELSE FloatLessMagnitude(x, y)

\* one step of long division: the next bit of the quotient s.q of the division by d
\* and the remainder s.rem left after it
MagDivStep(s, d) ==
    IF MagLess(MagScale(2, s.rem), d)
    THEN [rem |-> MagScale(2, s.rem), q |-> MagScale(2, s.q)]
    ELSE [rem |-> MagSub(MagScale(2, s.rem), d), q |-> MagAdd(MagScale(2, s.q), <<1>>)]

\* `bits` steps of long division; once nothing remains the other bits are zero
RECURSIVE MagDivSteps(_, _, _)
MagDivSteps(s, d, bits) ==
    IF bits = 0 THEN s
    ELSE IF s.rem = <<>> THEN [s EXCEPT !.q = MagShiftLeft(s.q, bits)]
    ELSE MagDivSteps(MagDivStep(s, d), d, bits - 1)

\* the quotient followed by a last bit that is set when the division is not exact
MagWithSticky(s) == MagAdd(MagScale(2, s.q), IF s.rem = <<>> THEN <<>> ELSE <<1>>)

\* the quotient bits of rem / d, for rem < d, after `bits` more steps, with the last bit
MagDivBits(rem, d, bits, q) == MagWithSticky(MagDivSteps([rem |-> rem, q |-> q], d, bits))

\* x / y for y other than zero
FloatDiv(x, y) ==
    IF x.mag = <<>> THEN FloatZero
    ELSE IF MagLess(x.mag, y.mag)
    THEN FloatRound(x.neg # y.neg, MagDivBits(x.mag, y.mag, 55, <<>>), x.exp - y.exp - 56)
    ELSE FloatRound(x.neg # y.neg, MagDivBits(MagSub(x.mag, y.mag), y.mag, 55, <<1>>),
                    x.exp - y.exp - 56)

\* the float literal n / d
FloatRatio(n, d) == FloatDiv(FloatOfInt(n), FloatOfInt(d))

(***************************************************************************)
(* The numbers of a maze.  A discount given as a ratio [num, den] stands   *)
(* for real arithmetic: the numbers are numerators, integers when the      *)
(* discount has denominator 1 or 2 and wide numbers otherwise.  A discount *)
(* given as a float stands for the arithmetic of the interpreter: the      *)
(* numbers are floats.                                                     *)
(***************************************************************************)
Binary(self) == "mag" \in DOMAIN self.discount

Wide(self) == ~Binary(self) /\ self.discount.den > 2

\* the integer n as a numerator of the maze
Num(self, n) ==
    IF Binary(self) THEN FloatOfInt(n) ELSE IF Wide(self) THEN WideOf(n) ELSE n

NumAdd(self, x, y) ==
    IF Binary(self) THEN FloatAdd(x, y) ELSE IF Wide(self) THEN WideAdd(x, y) ELSE x + y

\* k * x for an integer k
NumScale(self, k, x) ==
    IF Binary(self) THEN FloatMul(FloatOfInt(k), x)
    ELSE IF Wide(self) THEN WideScale(k, x)
    ELSE k * x

NumSub(self, x, y) == NumAdd(self, x, NumScale(self, -1, y))

NumLess(self, x, y) ==
    IF Binary(self) THEN FloatLess(x, y) ELSE IF Wide(self) THEN WideLess(x, y) ELSE x < y

NumAbs(self, x) ==
    IF Binary(self) THEN FloatAbs(x)
    ELSE IF Wide(self) THEN [neg |-> FALSE, mag |-> x.mag]
    ELSE Abs(x)

\* x * k^n
RECURSIVE NumScaleBy(_, _, _, _)
NumScaleBy(self, x, k, n) ==
    IF n <= 0 THEN x ELSE NumScaleBy(self, NumScale(self, k, x), k, n - 1)

(***************************************************************************)
(* config.py                                                               *)
(***************************************************************************)
REWARD_MAPPING == (" " :> -1) @@ ("g" :> RewDen) @@ ("b" :> -RewDen)

\* the same mapping in floats: -0.04, +1 and -1
BINARY_REWARD_MAPPING ==
    (" " :> FloatRatio(-1, RewDen)) @@ ("g" :> FloatOfInt(1)) @@ ("b" :> FloatOfInt(-1))

Colours == {" ", "g", "b", "w"}

\* the pre-defined maze, the discount factor 0.99 and the maximum error 78
GRID ==
    << <<"g", "w", "g", " ", " ", "g">>,
       <<" ", "b", " ", "g", "w", "b">>,
       <<" ", " ", "b", " ", "g", " ">>,
       <<" ", " ", " ", "b", " ", "g">>,
       <<" ", "w", "w", "w", "b", " ">>,
       <<" ", " ", " ", " ", " ", " ">> >>

DISCOUNT_FACTOR == [num |-> 99, den |-> 100]

MAX_ERROR == [num |-> 78, den |-> 1]

\* the rectangular grids the model is constructed from
Grids ==
    UNION { [1..h -> [1..w -> Colours]] :
            <<h, w>> \in { hw \in (1..MaxRows) \X (1..MaxCols) : hw[1] * hw[2] <= MaxCells } }

\* discount factors given to the constructor: 0, 1/2 and 1
Discounts == { [num |-> n, den |-> 2] : n \in 0..2 }

(***************************************************************************)
(* maze.py: MazeAction and Maze                                            *)
(***************************************************************************)
MOVE_UP == "MOVE_UP"
MOVE_DOWN == "MOVE_DOWN"
MOVE_LEFT == "MOVE_LEFT"
MOVE_RIGHT == "MOVE_RIGHT"

MazeAction == {MOVE_UP, MOVE_DOWN, MOVE_LEFT, MOVE_RIGHT}

\* possible_actions, in list order
possible_actions == <<MOVE_UP, MOVE_DOWN, MOVE_LEFT, MOVE_RIGHT>>

\* Python results: a value, or a raised exception
Ok(v) == [tag |-> "ok", val |-> v]
Raise(e) == [tag |-> "raise", exc |-> e]

\* seq[i] of a Python list: negative indices count from the end
PyIndex(seq, i) ==
    IF 0 <= i /\ i < Len(seq) THEN Ok(seq[i + 1])
    ELSE IF -Len(seq) <= i /\ i < 0 THEN Ok(seq[Len(seq) + i + 1])
    ELSE Raise("IndexError")

\* keys of possible_states: the non-wall cells (row, col), 0-based
possible_states(grid) ==
    { rc \in (0..(Len(grid) - 1)) \X (0..(Len(grid[1]) - 1)) : grid[rc[1] + 1][rc[2] + 1] # "w" }

\* dictionary order of self.states: insertion order of the comprehension, row-major
RECURSIVE KeysFrom(_, _, _)
KeysFrom(S, width, i) ==
    IF S = {} THEN <<>>
    ELSE LET rc == <<i \div width, i % width>>
         IN  IF rc \in S THEN <<rc>> \o KeysFrom(S \ {rc}, width, i + 1)
             ELSE KeysFrom(S, width, i + 1)

Keys(self) == KeysFrom(DOMAIN self.states, self.width, 0)

\* a dict literal {k1: v1, k2: v2, k3: v3} as the sequence of its items: a repeated
\* key keeps its first position and takes the last value
RECURSIVE DictLiteral(_)
DictLiteral(items) ==
    IF items = <<>> THEN <<>>
    ELSE LET n == Len(items)
             last == items[n]
             front == DictLiteral(SubSeq(items, 1, n - 1))
         IN  IF \E i \in 1..Len(front) : front[i].nominal = last.nominal
             THEN [i \in 1..Len(front) |->
                      IF front[i].nominal = last.nominal THEN last ELSE front[i]]
             ELSE Append(front, last)

\* Outcome with the bounds of the grid checked but not its walls
OutcomeIgnoringWalls(self, state, nominal, probability) ==
    [nominal |-> nominal,
     actual |-> IF nominal[1] \in 0..(self.height - 1) /\ nominal[2] \in 0..(self.width - 1)
                THEN nominal ELSE state,
     probability |-> probability]

\* one entry of next_states: the nominal key with its 'actual' and 'probability'
Outcome(self, state, nominal, probability) ==
    [nominal |-> nominal,
     actual |-> IF nominal \in DOMAIN self.states THEN nominal ELSE state,
     probability |-> probability]

\* get_next_states with the probabilities 0.7, 0.2 and 0.1 for MOVE_RIGHT
get_next_states_skewed(self, state, action) ==
    LET above_state == <<state[1] - 1, state[2]>>
        below_state == <<state[1] + 1, state[2]>>
        left_state == <<state[1], state[2] - 1>>
        right_state == <<state[1], state[2] + 1>>
        intended == IF action = MOVE_UP THEN above_state
                    ELSE IF action = MOVE_DOWN THEN below_state
                    ELSE IF action = MOVE_LEFT THEN left_state ELSE right_state
        lateral_1 == IF action \in {MOVE_UP, MOVE_DOWN} THEN left_state ELSE above_state
        lateral_2 == IF action \in {MOVE_UP, MOVE_DOWN} THEN right_state ELSE below_state
        skewed == action \notin {MOVE_UP, MOVE_DOWN, MOVE_LEFT}
    IN  DictLiteral(<<Outcome(self, state, intended, IF skewed THEN 7 ELSE 8),
                      Outcome(self, state, lateral_1, IF skewed THEN 2 ELSE 1),
                      Outcome(self, state, lateral_2, 1)>>)

\* get_next_states with MOVE_DOWN's below_state computed as MOVE_UP's above_state
get_next_states_down_as_up(self, state, action) ==
    LET above_state == <<state[1] - 1, state[2]>>
        below_state == <<state[1] + 1, state[2]>>
        left_state == <<state[1], state[2] - 1>>
        right_state == <<state[1], state[2] + 1>>
        intended == IF action \in {MOVE_UP, MOVE_DOWN} THEN above_state
                    ELSE IF action = MOVE_LEFT THEN left_state ELSE right_state
        lateral_1 == IF action \in {MOVE_UP, MOVE_DOWN} THEN left_state ELSE above_state
        lateral_2 == IF action \in {MOVE_UP, MOVE_DOWN} THEN right_state ELSE below_state
    IN  DictLiteral(<<Outcome(self, state, intended, 8),
                      Outcome(self, state, lateral_1, 1),
                      Outcome(self, state, lateral_2, 1)>>)

get_next_states(self, state, action) ==
    LET above_state == <<state[1] - 1, state[2]>>
        below_state == <<state[1] + 1, state[2]>>
        left_state == <<state[1], state[2] - 1>>
        right_state == <<state[1], state[2] + 1>>
    IN  IF action = MOVE_UP THEN
            DictLiteral(<<Outcome(self, state, above_state, 8),
                          Outcome(self, state, left_state, 1),
                          Outcome(self, state, right_state, 1)>>)
        ELSE IF action = MOVE_DOWN THEN
            DictLiteral(<<Outcome(self, state, below_state, 8),
                          Outcome(self, state, left_state, 1),
                          Outcome(self, state, right_state, 1)>>)
        ELSE IF action = MOVE_LEFT THEN
            DictLiteral(<<Outcome(self, state, left_state, 8),
                          Outcome(self, state, above_state, 1),
                          Outcome(self, state, below_state, 1)>>)
        ELSE
            DictLiteral(<<Outcome(self, state, right_state, 8),
                          Outcome(self, state, above_state, 1),
                          Outcome(self, state, below_state, 1)>>)

_form_action_next_state_map(self, state, actions) ==
    [action \in { actions[i] : i \in 1..Len(actions) } |-> get_next_states(self, state, action)]

\* Maze.__init__ filling the table before the states are handed to
\* MarkovDecisionProcess.__init__: get_next_states finds no state in self.states
NewMazeBeforeStates(grid, reward_mapping, discount_gamma) ==
    LET self == [grid |-> grid,
                 reward_mapping |-> reward_mapping,
                 height |-> Len(grid),
                 width |-> Len(grid[1]),
                 states |-> <<>>,
                 actions |-> possible_actions,
                 discount |-> discount_gamma]
    IN  [self EXCEPT !.states =
            [s \in possible_states(grid) |-> _form_action_next_state_map(self, s, possible_actions)]]

\* Maze.__init__ with MarkovDecisionProcess.__init__
NewMaze(grid, reward_mapping, discount_gamma) ==
    LET self == [grid |-> grid,
                 reward_mapping |-> reward_mapping,
                 height |-> Len(grid),
                 width |-> Len(grid[1]),
                 states |-> [s \in possible_states(grid) |-> <<>>],
                 actions |-> possible_actions,
                 discount |-> discount_gamma]
    IN  [self EXCEPT !.states =
            [s \in possible_states(grid) |-> _form_action_next_state_map(self, s, possible_actions)]]

\* the entry of a next_states dict under a key, or the default
DictGet(d, key, default) ==
    IF \E i \in 1..Len(d) : d[i].nominal = key
    THEN Ok((CHOOSE i \in 1..Len(d) : d[i].nominal = key))
    ELSE default

transition_model(self, state, action, next_state) ==
    IF state \notin DOMAIN self.states THEN Raise("KeyError")
    ELSE IF action \notin DOMAIN self.states[state] THEN Raise("KeyError")
    ELSE LET next_states_with_action == self.states[state][action]
             got == DictGet(next_states_with_action, next_state, Raise("TypeError"))
         IN  IF got.tag = "ok" THEN Ok(next_states_with_action[got.val].probability)
             ELSE got

reward_function(self, state) ==
    LET row == PyIndex(self.grid, state[1])
    IN  IF row.tag = "raise" THEN row
        ELSE LET colour == PyIndex(row.val, state[2])
             IN  IF colour.tag = "raise" THEN colour
                 ELSE IF colour.val \in DOMAIN self.reward_mapping
                      THEN Ok(self.reward_mapping[colour.val])
                      ELSE Raise("KeyError")

(***************************************************************************)
(* algorithms.py                                                           *)
(*                                                                         *)
(* A utility vector U "at exponent e" holds numerators over Unit(e).  The  *)
(* expected utility SUM p * U then has numerators over ProbDen * Unit(e),  *)
(* and R(s) + discount * SUM p * U has numerators over Unit(e + 1).  With  *)
(* floats the unit is 1 at every exponent and a utility is its own value.  *)
(***************************************************************************)
\* the factor between Unit(e) and Unit(e + 1)
UnitStep(self) == IF Binary(self) THEN 1 ELSE ProbDen * self.discount.den

Unit(self, e) == RewDen * Pow(UnitStep(self), e)

\* a utility vector, or a list of utilities, moved from exponent e to exponent e + 1
Rescale(self, U) == [s \in DOMAIN U |-> NumScale(self, UnitStep(self), U[s])]

\* acc + seq[i] + ... + seq[Len(seq)], added from left to right
RECURSIVE SeqSumFrom(_, _, _, _)
SeqSumFrom(self, seq, i, acc) ==
    IF i > Len(seq) THEN acc ELSE SeqSumFrom(self, seq, i + 1, NumAdd(self, acc, seq[i]))

\* "expected_utility = 0" of line 191 and the "+=" of line 205 over the terms
SeqSum(self, seq) == SeqSumFrom(self, seq, 1, Num(self, 0))

\* the float literals 0.0, 0.1, ..., 1.0 of the probabilities 0, 1, ..., ProbDen
ProbabilityFloats == [p \in 1..(ProbDen + 1) |-> FloatRatio(p - 1, ProbDen)]

\* probability * utility for a probability over ProbDen
ProbabilityTimes(self, probability, utility) ==
    IF Binary(self) THEN FloatMul(ProbabilityFloats[probability + 1], utility)
    ELSE NumScale(self, probability, utility)

\* the reward of a state as a number over Unit(exp + 1)
RewardAt(self, state_position, exp) ==
    IF Binary(self) THEN reward_function(self, state_position).val
    ELSE NumScaleBy(self, Num(self, reward_function(self, state_position).val),
                    UnitStep(self), exp + 1)

\* discount * expected_utility, over Unit(exp + 1) for an expected utility over
\* ProbDen * Unit(exp)
DiscountTimes(self, expected_utility) ==
    IF Binary(self) THEN FloatMul(self.discount, expected_utility)
    ELSE NumScale(self, self.discount.num, expected_utility)

\* lines 194-205: the term "probability * next_state_utility" of one next state
NextStateTerm(self, state_position, action, current_utilities, next_state) ==
    ProbabilityTimes(self,
                     transition_model(self, state_position, action, next_state.nominal).val,
                     current_utilities[next_state.actual])

\* the loop over possible_next_states with the blocked outcomes, those whose actual
\* state is not their nominal one, left out of the sum
ExpectedUtilityOverUnblocked(self, state_position, action, current_utilities, possible_next_states) ==
    SeqSum(self,
           [i \in 1..Len(possible_next_states) |->
               IF possible_next_states[i].nominal = possible_next_states[i].actual
               THEN NextStateTerm(self, state_position, action, current_utilities,
                                  possible_next_states[i])
               ELSE Num(self, 0)])

\* lines 193-205: the loop over possible_next_states
ExpectedUtilityOver(self, state_position, action, current_utilities, possible_next_states) ==
    SeqSum(self,
           [i \in 1..Len(possible_next_states) |->
               NextStateTerm(self, state_position, action, current_utilities,
                             possible_next_states[i])])

_get_expected_utility(self, state_position, action, current_utilities) ==
    ExpectedUtilityOver(self, state_position, action, current_utilities,
                        get_next_states(self, state_position, action))

\* the test of line 156 with ">=" for ">": an action that ties with the best so
\* far replaces it
BetterActionAtTies(self, best, action, expected_utility) ==
    IF best.neg_inf \/ ~NumLess(self, expected_utility, best.max_expected_utility)
    THEN [max_expected_utility |-> expected_utility,
          best_action |-> action,
          neg_inf |-> FALSE]
    ELSE best

\* "if expected_utility > max_expected_utility": best carries max_expected_utility
\* and best_action, neg_inf standing for float('-inf')
BetterAction(self, best, action, expected_utility) ==
    IF best.neg_inf \/ NumLess(self, best.max_expected_utility, expected_utility)
    THEN [max_expected_utility |-> expected_utility,
          best_action |-> action,
          neg_inf |-> FALSE]
    ELSE best

\* the loop "for action in state_with_action" from its i-th action on
RECURSIVE BestActionFrom(_, _, _, _, _)
BestActionFrom(self, state_position, current_utilities, i, best) ==
    IF i > Len(self.actions) THEN best
    ELSE BestActionFrom(self, state_position, current_utilities, i + 1,
             BetterAction(self, best, self.actions[i],
                 _get_expected_utility(self, state_position, self.actions[i],
                                       current_utilities)))

NegInf == [max_expected_utility |-> 0, best_action |-> None, neg_inf |-> TRUE]

\* R(s) + discount * expected_utility over Unit(exp + 1), for an expected utility
\* computed from utilities at exponent exp
Backup(self, state_position, expected_utility, exp) ==
    NumAdd(self, RewardAt(self, state_position, exp), DiscountTimes(self, expected_utility))

\* the pair returned at lines 161-162
BellmanResult(self, state_position, best, exp) ==
    [utility |-> Backup(self, state_position, best.max_expected_utility, exp),
     action |-> best.best_action]

\* current_utilities is at exponent exp; the utility returned is at exponent exp + 1
_bellman_equation(self, state_position, current_utilities, exp) ==
    BellmanResult(self, state_position,
                  BestActionFrom(self, state_position, current_utilities, 1, NegInf), exp)

\* lines 59-76 with the lists of iteration_utilities started as policy_iteration
\* starts them at line 256, with the first utility in place
VILocalsWithFirstUtility(self) ==
    [current_utilities |-> [s \in DOMAIN self.states |-> Num(self, 0)],
     new_utilities |-> [s \in DOMAIN self.states |-> Num(self, 0)],
     optimal_policy |-> [s \in DOMAIN self.states |-> None],
     iteration_utilities |-> [s \in DOMAIN self.states |-> <<Num(self, 0)>>],
     converged |-> FALSE,
     num_iterations |-> 0,
     max_utility_change |-> Num(self, 0),
     exp |-> 0]

\* lines 59-76 of value_iteration
VILocals(self) ==
    [current_utilities |-> [s \in DOMAIN self.states |-> Num(self, 0)],
     new_utilities |-> [s \in DOMAIN self.states |-> Num(self, 0)],
     optimal_policy |-> [s \in DOMAIN self.states |-> None],
     iteration_utilities |-> [s \in DOMAIN self.states |-> <<>>],
     converged |-> FALSE,
     num_iterations |-> 0,
     max_utility_change |-> Num(self, 0),
     exp |-> 0]

\* the larger of two numbers
Max(self, a, b) == IF NumLess(self, b, a) THEN a ELSE b

\* lines 89-100 for one state with the new utility written into current_utilities
\* as well, where the backups of the states after it read it
SweepStateInPlace(self, l, state_position, b) ==
    [l EXCEPT !.new_utilities[state_position] = b.utility,
              !.current_utilities[state_position] = b.utility,
              !.optimal_policy[state_position] = b.action,
              !.max_utility_change =
                  Max(self,
                      NumAbs(self,
                             NumSub(self, b.utility,
                                    NumScale(self, UnitStep(self),
                                             l.current_utilities[state_position]))),
                      @)]

\* lines 89-100 for one state with the best action stored for the open cells
\* only: the goal and the bad cells keep the None of line 65
SweepStateOfOpenCells(self, l, state_position, b) ==
    [l EXCEPT !.new_utilities[state_position] = b.utility,
              !.optimal_policy[state_position] =
                  IF self.grid[state_position[1] + 1][state_position[2] + 1] = " "
                  THEN b.action ELSE @,
              !.max_utility_change =
                  Max(self,
                      NumAbs(self,
                             NumSub(self, b.utility,
                                    NumScale(self, UnitStep(self),
                                             l.current_utilities[state_position]))),
                      @)]

\* lines 89-100 for one state, b being the pair _bellman_equation returned;
\* l.current_utilities is at exponent l.exp, l.new_utilities and
\* l.max_utility_change at exponent l.exp + 1
SweepState(self, l, state_position, b) ==
    [l EXCEPT !.new_utilities[state_position] = b.utility,
              !.optimal_policy[state_position] = b.action,
              !.max_utility_change =
                  Max(self,
                      NumAbs(self,
                             NumSub(self, b.utility,
                                    NumScale(self, UnitStep(self),
                                             l.current_utilities[state_position]))),
                      @)]

\* the loop "for state_position in mdp.states" of lines 87-100 from its i-th state on
RECURSIVE SweepFrom(_, _, _, _)
SweepFrom(self, keys, i, l) ==
    IF i > Len(keys) THEN l
    ELSE SweepFrom(self, keys, i + 1,
             SweepState(self, l, keys[i],
                 _bellman_equation(self, keys[i], l.current_utilities, l.exp)))

\* "mdp.discount" is zero
ZeroDiscount(self) ==
    IF Binary(self) THEN self.discount.mag = <<>> ELSE self.discount.num = 0

\* the two sides of the test of line 112 for a max_utility_change over Unit(exp).
\* With numerators both sides are multiplied by Unit(exp) * max_error.den *
\* discount.num, which is positive: a discount is not negative and max_error.den
\* is positive.  With floats they are the floats the line computes.
ChangeSide(self, max_utility_change, max_error) ==
    IF Binary(self) THEN max_utility_change
    ELSE NumScale(self, max_error.den * self.discount.num, max_utility_change)

BoundSide(self, exp, max_error) ==
    IF Binary(self)
    THEN FloatDiv(FloatMul(max_error, FloatSub(FloatOfInt(1), self.discount)), self.discount)
    ELSE NumScaleBy(self,
                    Num(self, max_error.num * (self.discount.den - self.discount.num) * RewDen),
                    UnitStep(self), exp)

\* the test of line 112 with "<=" for "<"
ConvergedAtBound(self, max_utility_change, exp, max_error) ==
    IF ZeroDiscount(self) THEN Raise("ZeroDivisionError")
    ELSE Ok(~NumLess(self, BoundSide(self, exp, max_error),
                     ChangeSide(self, max_utility_change, max_error)))

\* "max_utility_change < (max_error * (1 - mdp.discount) / mdp.discount)"; the
\* division raises when the discount is 0
Converged(self, max_utility_change, exp, max_error) ==
    IF ZeroDiscount(self) THEN Raise("ZeroDivisionError")
    ELSE Ok(NumLess(self, ChangeSide(self, max_utility_change, max_error),
                    BoundSide(self, exp, max_error)))

\* lines 79-85 without "max_utility_change = 0" of line 85: the largest change of
\* the earlier sweeps is kept, at exponent l.exp + 1
VISweepStartKeepingMaxChange(self, l) ==
    [l EXCEPT !.current_utilities = [s \in DOMAIN self.states |-> l.new_utilities[s]],
              !.iteration_utilities =
                  [s \in DOMAIN self.states |-> Append(@[s], l.new_utilities[s])],
              !.new_utilities = Rescale(self, @),
              !.max_utility_change = NumScale(self, UnitStep(self), @)]

\* lines 79-85: U <- U', the entry of iteration_utilities, max_utility_change = 0;
\* new_utilities moves to exponent l.exp + 1, where the sweep overwrites it
VISweepStart(self, l) ==
    [l EXCEPT !.current_utilities = [s \in DOMAIN self.states |-> l.new_utilities[s]],
              !.iteration_utilities =
                  [s \in DOMAIN self.states |-> Append(@[s], l.new_utilities[s])],
              !.new_utilities = Rescale(self, @),
              !.max_utility_change = Num(self, 0)]

\* lines 102-112 after the sweep: the count, and the outcome of the test of line
\* 112; the locals move to exponent swept.exp + 1
VISweepEnd(self, swept, converged) ==
    [locals |->
        [swept EXCEPT !.current_utilities = Rescale(self, @),
                      !.iteration_utilities =
                          [s \in DOMAIN self.states |-> Rescale(self, swept.iteration_utilities[s])],
                      !.num_iterations = @ + 1,
                      !.converged = (converged.tag = "ok" /\ converged.val),
                      !.exp = @ + 1],
     raised |-> converged]

\* line 112 on the max_utility_change of the sweep
VISweepTest(self, swept, max_error) ==
    VISweepEnd(self, swept,
               Converged(self, swept.max_utility_change, swept.exp + 1, max_error))

\* one pass of the body of "while not converged", lines 79-112; the locals it
\* returns are at exponent l.exp + 1
VISweepBody(self, l, max_error) ==
    VISweepTest(self, SweepFrom(self, Keys(self), 1, VISweepStart(self, l)), max_error)

\* the record of lines 118-123 with new_utilities for current_utilities
VIResultOfNewUtilities(l) ==
    [utilities |-> l.new_utilities,
     optimal_policy |-> l.optimal_policy,
     num_iterations |-> l.num_iterations,
     iteration_utilities |-> l.iteration_utilities,
     exp |-> l.exp]

\* the record returned at lines 118-123
VIResult(l) ==
    [utilities |-> l.current_utilities,
     optimal_policy |-> l.optimal_policy,
     num_iterations |-> l.num_iterations,
     iteration_utilities |-> l.iteration_utilities,
     exp |-> l.exp]

\* lines 349-360 with the backup of _bellman_equation, which takes the best of the
\* four actions, for the backup under the action of the policy
UpdatedUtilitiesOfBestActions(self, policy, e) ==
    [state_position \in DOMAIN self.states |->
        _bellman_equation(self, state_position, e.current_utilities, e.exp).utility]

\* lines 349-360: the updated_utilities of one round, at exponent e.exp + 1
UpdatedUtilities(self, policy, e) ==
    [state_position \in DOMAIN self.states |->
        Backup(self, state_position,
               _get_expected_utility(self, state_position, policy[state_position],
                                     e.current_utilities),
               e.exp)]

\* lines 362-369: current_utilities <- updated_utilities, and its entry in
\* new_iteration_utilities; the dicts passed in, e.policy and e.utilities, are
\* not written
EvaluationRound(self, e, updated_utilities) ==
    [e EXCEPT !.current_utilities = updated_utilities,
              !.new_iteration_utilities =
                  [s \in DOMAIN self.states |->
                      Append(Rescale(self, e.new_iteration_utilities[s]), updated_utilities[s])],
              !.exp = e.exp + 1]

\* the rounds "for eval_num in range(num_policy_evaluation)" of lines 345-369 that
\* remain when `rounds` of them are left; e.current_utilities is at exponent e.exp
\* and so are the lists of e.new_iteration_utilities
RECURSIVE EvaluationRounds(_, _, _, _)
EvaluationRounds(self, policy, rounds, e) ==
    IF rounds <= 0 THEN e
    ELSE EvaluationRounds(self, policy, rounds - 1,
             EvaluationRound(self, e, UpdatedUtilities(self, policy, e)))

\* utilities is at exponent exp; the utilities returned are at the exponent
\* returned.  The fields policy and utilities are the dicts of the caller as the
\* function leaves them: lines 333-336 copy the utilities into a dict of its own.
_policy_evaluation(self, policy, utilities, num_policy_evaluation, exp) ==
    EvaluationRounds(self, policy, num_policy_evaluation,
        [current_utilities |-> [s \in DOMAIN self.states |-> utilities[s]],
         new_iteration_utilities |-> [s \in DOMAIN self.states |-> <<>>],
         exp |-> exp,
         policy |-> policy,
         utilities |-> utilities])

\* lines 410-436 for one state with ">=" for ">" in the test of line 434: the best
\* action replaces the action of the policy also when the two tie
ImprovedActionAtTies(self, policy_action, best, policy_expected_utility) ==
    IF ~best.neg_inf /\ ~NumLess(self, best.max_expected_utility, policy_expected_utility)
    THEN [action |-> best.best_action, improved |-> TRUE]
    ELSE [action |-> policy_action, improved |-> FALSE]

\* lines 410-436 for one state: the action of the updated policy, and whether it
\* replaced the policy's action
ImprovedAction(self, policy_action, best, policy_expected_utility) ==
    IF ~best.neg_inf /\ NumLess(self, policy_expected_utility, best.max_expected_utility)
    THEN [action |-> best.best_action, improved |-> TRUE]
    ELSE [action |-> policy_action, improved |-> FALSE]

\* the pair of line 440 with unchanged set when some state kept its action
ImprovementResultIfAnyUnchanged(improvement) ==
    [updated_policy |-> [state_position \in DOMAIN improvement |->
                            improvement[state_position].action],
     unchanged |-> \E state_position \in DOMAIN improvement :
                       ~improvement[state_position].improved]

\* the pair returned at line 440
ImprovementResult(improvement) ==
    [updated_policy |-> [state_position \in DOMAIN improvement |->
                            improvement[state_position].action],
     unchanged |-> \A state_position \in DOMAIN improvement :
                       ~improvement[state_position].improved]

_policy_improvement(self, policy, utilities) ==
    ImprovementResult(
        [state_position \in DOMAIN self.states |->
            ImprovedAction(self, policy[state_position],
                BestActionFrom(self, state_position, utilities, 1, NegInf),
                _get_expected_utility(self, state_position, policy[state_position],
                                      utilities))])

\* lines 242-260 of policy_iteration
PILocals(self) ==
    [utilities |-> [s \in DOMAIN self.states |-> Num(self, 0)],
     policy |-> [s \in DOMAIN self.states |-> MOVE_UP],
     iteration_utilities |-> [s \in DOMAIN self.states |-> <<Num(self, 0)>>],
     unchanged |-> FALSE,
     num_iterations |-> 0,
     exp |-> 0]

\* a list of utilities moved up by n exponents
RECURSIVE RescaleBy(_, _, _)
RescaleBy(self, U, n) == IF n <= 0 THEN U ELSE RescaleBy(self, Rescale(self, U), n - 1)

\* lines 273-284 with the count raised by 1 for each pass
PILoopEndCountingLoops(self, l, num_policy_evaluation, evaluated, improved) ==
    [utilities |-> evaluated.current_utilities,
     policy |-> improved.updated_policy,
     iteration_utilities |->
         [s \in DOMAIN self.states |->
             RescaleBy(self, l.iteration_utilities[s], evaluated.exp - l.exp)
                 \o evaluated.new_iteration_utilities[s]],
     unchanged |-> improved.unchanged,
     num_iterations |-> l.num_iterations + 1,
     exp |-> evaluated.exp]

\* lines 273-284: the count and the iteration_utilities after one pass
PILoopEnd(self, l, num_policy_evaluation, evaluated, improved) ==
    [utilities |-> evaluated.current_utilities,
     policy |-> improved.updated_policy,
     iteration_utilities |->
         [s \in DOMAIN self.states |->
             RescaleBy(self, l.iteration_utilities[s], evaluated.exp - l.exp)
                 \o evaluated.new_iteration_utilities[s]],
     unchanged |-> improved.unchanged,
     num_iterations |-> l.num_iterations + num_policy_evaluation,
     exp |-> evaluated.exp]

\* lines 270-284 with the improvement of the policy on the utilities the pass
\* started with, not on the ones the evaluation returned
PILoopImproveOnGivenUtilities(self, l, num_policy_evaluation, evaluated) ==
    PILoopEnd(self, l, num_policy_evaluation, evaluated,
              _policy_improvement(self, l.policy, l.utilities))

\* lines 270-284: the improvement of the policy on the evaluated utilities
PILoopImprove(self, l, num_policy_evaluation, evaluated) ==
    PILoopEnd(self, l, num_policy_evaluation, evaluated,
              _policy_improvement(self, l.policy, evaluated.current_utilities))

\* one pass of the body of "while not unchanged", lines 263-284
PILoopBody(self, l, num_policy_evaluation) ==
    PILoopImprove(self, l, num_policy_evaluation,
                  _policy_evaluation(self, l.policy, l.utilities,
                                     num_policy_evaluation, l.exp))

\* the record returned at lines 292-297
PIResult(l) ==
    [utilities |-> l.utilities,
     optimal_policy |-> l.policy,
     num_iterations |-> l.num_iterations,
     iteration_utilities |-> l.iteration_utilities,
     exp |-> l.exp]

(***************************************************************************)
(* binary64                                                                *)
(*                                                                         *)
(* The probabilities are the Python float literals 0.8 and 0.1.  A finite  *)
(* non-negative binary64 number is [m, e], standing for m * 2^e, with m a  *)
(* natural number of exactly 53 bits, or zero.  A natural number below     *)
(* 2^64 is written as four limbs of 16 bits, least significant first.      *)
(* Literals and sums round to nearest, ties to even, as IEEE 754           *)
(* arithmetic does.  Shifts are by less than one limb, which covers the    *)
(* sums of numbers whose exponents differ by at most 11, as those of the   *)
(* literals 0.0, 0.1, ..., 1.0 and their sums do.                          *)
(***************************************************************************)
Limb == 2^16

W64Zero == <<0, 0, 0, 0>>

\* a + b
W64Add(a, b) ==
    LET s1 == a[1] + b[1]
        s2 == a[2] + b[2] + (s1 \div Limb)
        s3 == a[3] + b[3] + (s2 \div Limb)
        s4 == a[4] + b[4] + (s3 \div Limb)
    IN  <<s1 % Limb, s2 % Limb, s3 % Limb, s4 % Limb>>

\* a * 2^s for 0 <= s < 16
W64ShiftLeft(a, s) ==
    [i \in 1..4 |->
        ((a[i] * 2^s) % Limb) + (IF i = 1 THEN 0 ELSE (a[i - 1] * 2^s) \div Limb)]

\* a \div 2^s for 0 <= s < 16
W64ShiftRight(a, s) ==
    [i \in 1..4 |->
        (a[i] \div 2^s) + (IF i = 4 THEN 0 ELSE (a[i + 1] % 2^s) * 2^(16 - s))]

\* the number of bits of a
W64BitLen(a) ==
    IF a = W64Zero THEN 0
    ELSE LET top == CHOOSE i \in 1..4 : a[i] # 0 /\ \A j \in (i + 1)..4 : a[j] = 0
         IN  16 * (top - 1) + (CHOOSE n \in 1..16 : 2^(n - 1) <= a[top] /\ a[top] < 2^n)

\* quotient and remainder of a by the small number d
W64Div(a, d) ==
    LET r4 == a[4] % d
        r3 == (r4 * Limb + a[3]) % d
        r2 == (r3 * Limb + a[2]) % d
    IN  [q |-> <<(r2 * Limb + a[1]) \div d, (r3 * Limb + a[2]) \div d,
                 (r4 * Limb + a[3]) \div d, a[4] \div d>>,
         rem |-> (r2 * Limb + a[1]) % d]

\* the binary64 nearest to (a + a fraction) * 2^e, the fraction being in (0, 1)
\* when sticky holds and 0 otherwise
F64Round(a, sticky, e) ==
    LET n == W64BitLen(a)
    IN  IF n = 0 THEN [m |-> W64Zero, e |-> 0]
        ELSE IF n <= 53 THEN [m |-> W64ShiftLeft(a, 53 - n), e |-> e - (53 - n)]
        ELSE LET drop == n - 53
                 kept == W64ShiftRight(a, drop)
                 guard == (a[1] \div 2^(drop - 1)) % 2
                 below == sticky \/ (a[1] % 2^(drop - 1)) # 0
                 up == guard = 1 /\ (below \/ (kept[1] % 2) = 1)
                 m == IF up THEN W64Add(kept, <<1, 0, 0, 0>>) ELSE kept
             IN  IF W64BitLen(m) > 53 THEN [m |-> W64ShiftRight(m, 1), e |-> e + drop + 1]
                 ELSE [m |-> m, e |-> e + drop]

\* the float literal for p / ProbDen (0.8 for p = 8, 0.1 for p = 1, 1.0 for
\* p = ProbDen): the binary64 nearest to p * 2^60 / ProbDen * 2^-60
F64Literal(p) ==
    LET d == W64Div(<<0, 0, 0, p * 2^12>>, ProbDen)
    IN  F64Round(d.q, d.rem # 0, -60)

\* x + y in binary64
F64Add(x, y) ==
    IF x.m = W64Zero THEN y
    ELSE IF y.m = W64Zero THEN x
    ELSE LET e == IF x.e < y.e THEN x.e ELSE y.e
         IN  F64Round(W64Add(W64ShiftLeft(x.m, x.e - e), W64ShiftLeft(y.m, y.e - e)),
                      FALSE, e)

\* Python's sum(): 0 + seq[1] + ... + seq[n], added left to right, for a list of
\* probabilities in units of 1/ProbDen
RECURSIVE F64SumTo(_, _)
F64SumTo(seq, n) ==
    IF n = 0 THEN F64Literal(0) ELSE F64Add(F64SumTo(seq, n - 1), F64Literal(seq[n]))

F64Sum(seq) == F64SumTo(seq, Len(seq))

\* the float 1.0
F64One == F64Literal(ProbDen)

(***************************************************************************)
(* State machine                                                           *)
(***************************************************************************)
NoResult == [tag |-> "none"]
NoLocals == [op |-> None]

\* the model after construction: solve_MDP's Maze(grid, REWARD_MAPPING, ..., discount_gamma)
Init ==
    /\ \E grid \in Grids, discount_gamma \in Discounts :
           maze = NewMaze(grid, REWARD_MAPPING, discount_gamma)
    /\ pc = "idle"
    /\ call = [op |-> None]
    /\ ret = NoResult
    /\ vi = NoLocals
    /\ pi = NoLocals

\* coordinates handed to the model's methods: the grid and a margin around it
Coords(self) == ((-1)..self.height) \X ((-1)..self.width)

\* coordinates far enough on the negative side to leave Python's negative indices
WideCoords(self) == ((-(self.height + 1))..self.height) \X ((-(self.width + 1))..self.width)

\* candidate next states asked of transition_model: the state, its four
\* neighbours and a diagonal neighbour
Candidates(state) ==
    { <<state[1] + d[1], state[2] + d[2]>> :
        d \in {<<0, 0>>, <<-1, 0>>, <<1, 0>>, <<0, -1>>, <<0, 1>>, <<1, 1>>} }

\* action arguments: the four members of MazeAction, and None for any other object
ActionArguments == MazeAction \cup {None}

\* a caller invokes maze.get_next_states(state, action)
GetNextStates ==
    /\ pc = "idle"
    /\ \E state \in Coords(maze), action \in ActionArguments :
          /\ call' = [op |-> "get_next_states", state |-> state, action |-> action]
          /\ ret' = Ok(get_next_states(maze, state, action))
    /\ pc' = "done"
    /\ UNCHANGED <<maze, vi, pi>>

\* a caller invokes maze.transition_model(state, action, next_state)
TransitionModel ==
    /\ pc = "idle"
    /\ \E state \in Coords(maze), action \in ActionArguments :
          \E next_state \in Candidates(state) :
             /\ call' = [op |-> "transition_model", state |-> state, action |-> action,
                         next_state |-> next_state]
             /\ ret' = transition_model(maze, state, action, next_state)
    /\ pc' = "done"
    /\ UNCHANGED <<maze, vi, pi>>

\* a caller invokes maze.reward_function(state)
RewardFunction ==
    /\ pc = "idle"
    /\ \E state \in WideCoords(maze) :
          /\ call' = [op |-> "reward_function", state |-> state]
          /\ ret' = reward_function(maze, state)
    /\ pc' = "done"
    /\ UNCHANGED <<maze, vi, pi>>

\* max_error arguments: -1, 0, 1/4, 1/2, 1 (the default) and 2
MaxErrors == { [num |-> n, den |-> 4] : n \in {-4, 0, 1, 2, 4, 8} }

\* a caller invokes value_iteration(maze, max_error): lines 59-76
ValueIterationEnter ==
    /\ pc = "idle"
    /\ \E max_error \in MaxErrors :
          call' = [op |-> "value_iteration", max_error |-> max_error]
    /\ vi' = VILocals(maze)
    /\ pc' = "value_iteration"
    /\ UNCHANGED <<maze, ret, pi>>

\* one pass of "while not converged" that also clears the model's discount
ValueIterationSweepClearingDiscount ==
    /\ pc = "value_iteration"
    /\ ~vi.converged
    /\ vi.num_iterations < (IF Wide(maze) \/ Binary(maze) THEN MaxWideSweeps ELSE MaxIterations)
    /\ \E body \in {VISweepBody(maze, vi, call.max_error)} :
          /\ vi' = body.locals
          /\ IF body.raised.tag = "raise"
             THEN pc' = "done" /\ ret' = body.raised
             ELSE IF body.locals.converged
                  THEN pc' = "done" /\ ret' = Ok(VIResult(body.locals))
                  ELSE pc' = "value_iteration" /\ ret' = ret
    /\ maze' = [maze EXCEPT !.discount.num = 0]
    /\ UNCHANGED <<call, pi>>

\* one pass of "while not converged" (lines 78-112), and the return of lines
\* 118-123 when the loop condition then fails
ValueIterationSweep ==
    /\ pc = "value_iteration"
    /\ ~vi.converged
    /\ vi.num_iterations < (IF Wide(maze) \/ Binary(maze) THEN MaxWideSweeps ELSE MaxIterations)
    /\ \E body \in {VISweepBody(maze, vi, call.max_error)} :
          /\ vi' = body.locals
          /\ IF body.raised.tag = "raise"
             THEN pc' = "done" /\ ret' = body.raised
             ELSE IF body.locals.converged
                  THEN pc' = "done" /\ ret' = Ok(VIResult(body.locals))
                  ELSE pc' = "value_iteration" /\ ret' = ret
    /\ UNCHANGED <<maze, call, pi>>

\* num_policy_evaluation arguments; 1 is the default
NumPolicyEvaluations == {-1, 0, 1, 2}

\* a caller invokes policy_iteration(maze, num_policy_evaluation): lines 242-260
PolicyIterationEnter ==
    /\ pc = "idle"
    /\ \E num_policy_evaluation \in NumPolicyEvaluations :
          call' = [op |-> "policy_iteration",
                   num_policy_evaluation |-> num_policy_evaluation]
    /\ pi' = PILocals(maze)
    /\ pc' = "policy_iteration"
    /\ UNCHANGED <<maze, ret, vi>>

\* one pass of "while not unchanged" (lines 262-284), and the return of lines
\* 292-297 when the loop condition then fails
PolicyIterationLoop ==
    /\ pc = "policy_iteration"
    /\ ~pi.unchanged
    /\ pi.exp + call.num_policy_evaluation <= MaxIterations
    /\ \E body \in {PILoopBody(maze, pi, call.num_policy_evaluation)} :
          /\ pi' = body
          /\ IF body.unchanged
             THEN pc' = "done" /\ ret' = Ok(PIResult(body))
             ELSE pc' = "policy_iteration" /\ ret' = ret
    /\ UNCHANGED <<maze, call, vi>>

Next ==
    \/ ValueIterationEnter
    \/ ValueIterationSweep
    \/ PolicyIterationEnter
    \/ PolicyIterationLoop
    \/ GetNextStates
    \/ TransitionModel
    \/ RewardFunction

Spec == Init /\ [][Next]_vars

\* discounts strictly between 0 and 1: 1/4, 1/2, 3/4 and 9/10
OpenDiscounts ==
    { [num |-> 1, den |-> 4], [num |-> 2, den |-> 4], [num |-> 3, den |-> 4],
      [num |-> 9, den |-> 10] }

\* the grid of one white cell, and the grids of two non-wall cells, in a column and
\* in a row
OneCellGrid == << <<" ">> >>

TwoCellGrids ==
    { << <<a>>, <<b>> >> : a, b \in Colours \ {"w"} }
        \cup { << <<a, b>> >> : a, b \in Colours \ {"w"} }

\* max_error arguments of the long runs: 0.01, 0.03, 0.05, 0.13 and 1
TightMaxErrors == { [num |-> n, den |-> 100] : n \in {1, 3, 5, 13, 100} }

\* the model main() constructs by default, Maze(GRID, REWARD_MAPPING, ...,
\* DISCOUNT_FACTOR), or a model of one or two cells with a discount between 0 and 1
InitLong ==
    /\ \/ maze = NewMaze(GRID, REWARD_MAPPING, DISCOUNT_FACTOR)
       \/ \E grid \in {OneCellGrid} \cup TwoCellGrids, discount_gamma \in OpenDiscounts :
              maze = NewMaze(grid, REWARD_MAPPING, discount_gamma)
    /\ pc = "idle"
    /\ call = [op |-> None]
    /\ ret = NoResult
    /\ vi = NoLocals
    /\ pi = NoLocals

\* solve_MDP invokes value_iteration(maze, max_error=MAX_ERROR) on the default
\* model: lines 59-76
ValueIterationConfigured ==
    /\ pc = "idle"
    /\ maze.grid = GRID
    /\ call' = [op |-> "value_iteration", max_error |-> MAX_ERROR]
    /\ vi' = VILocals(maze)
    /\ pc' = "value_iteration"
    /\ UNCHANGED <<maze, ret, pi>>

\* a caller invokes value_iteration(maze, max_error) on a model of one or two
\* cells: lines 59-76
ValueIterationTight ==
    /\ pc = "idle"
    /\ maze.grid # GRID
    /\ \E max_error \in TightMaxErrors :
          call' = [op |-> "value_iteration", max_error |-> max_error]
    /\ vi' = VILocals(maze)
    /\ pc' = "value_iteration"
    /\ UNCHANGED <<maze, ret, pi>>

NextLong ==
    \/ ValueIterationConfigured
    \/ ValueIterationTight
    \/ ValueIterationSweep

\* ENABLED <<ValueIterationSweep>>_vars: the guard of the action, whose body always
\* has a next state, one that raises vi.num_iterations
SweepEnabled ==
    /\ pc = "value_iteration"
    /\ ~vi.converged
    /\ vi.num_iterations < (IF Wide(maze) \/ Binary(maze) THEN MaxWideSweeps ELSE MaxIterations)

\* weak fairness of the sweep, WF_vars(ValueIterationSweep), with SweepEnabled for
\* ENABLED <<ValueIterationSweep>>_vars: the loop of value_iteration runs in one
\* thread that nothing suspends, so while its condition holds the next pass is taken
SweepIsFair == []<>(~SweepEnabled) \/ []<><<ValueIterationSweep>>_vars

\* long runs of value_iteration: the default run of main(), and runs on models of
\* one or two cells with discounts between 0 and 1 and small max_error
SpecLong == InitLong /\ [][NextLong]_vars /\ SweepIsFair

(***************************************************************************)
(* value_iteration in the floats of the interpreter, on the grids of two   *)
(* cells without a wall.                                                   *)
(***************************************************************************)
\* discount_gamma arguments: 0.25 and 0.5
BinaryDiscounts == { FloatRatio(1, 4), FloatRatio(1, 2) }

\* max_error arguments: 2 ** -60, 0.01 and 1e-06
BinaryMaxErrors == { FloatRound(FALSE, <<1>>, -60), FloatRatio(1, 100), FloatRatio(1, 1000000) }

InitBinary ==
    /\ \E grid \in TwoCellGrids, discount_gamma \in BinaryDiscounts :
          maze = NewMaze(grid, BINARY_REWARD_MAPPING, discount_gamma)
    /\ pc = "idle"
    /\ call = [op |-> None]
    /\ ret = NoResult
    /\ vi = NoLocals
    /\ pi = NoLocals

\* a caller invokes value_iteration(maze, max_error): lines 59-76
ValueIterationBinary ==
    /\ pc = "idle"
    /\ \E max_error \in BinaryMaxErrors :
          call' = [op |-> "value_iteration", max_error |-> max_error]
    /\ vi' = VILocals(maze)
    /\ pc' = "value_iteration"
    /\ UNCHANGED <<maze, ret, pi>>

NextBinary == ValueIterationBinary \/ ValueIterationSweep

SpecBinary == InitBinary /\ [][NextBinary]_vars

\* value_iteration with the locals of the earlier call in place of the fresh dicts
\* of lines 59-76
ValueIterationAgainOnEarlierLocals ==
    /\ pc = "done"
    /\ call.op = "value_iteration"
    /\ ret.tag = "ok"
    /\ "earlier" \notin DOMAIN call
    /\ call' = [op |-> "value_iteration", max_error |-> call.max_error, earlier |-> ret.val]
    /\ vi' = [vi EXCEPT !.converged = FALSE, !.num_iterations = 0]
    /\ pc' = "value_iteration"
    /\ ret' = NoResult
    /\ UNCHANGED <<maze, pi>>

\* after value_iteration has returned, the caller invokes it a second time on the
\* same maze with the same max_error (lines 59-76); call.earlier keeps the record
\* the first call returned
ValueIterationAgain ==
    /\ pc = "done"
    /\ call.op = "value_iteration"
    /\ ret.tag = "ok"
    /\ "earlier" \notin DOMAIN call
    /\ call' = [op |-> "value_iteration", max_error |-> call.max_error, earlier |-> ret.val]
    /\ vi' = VILocals(maze)
    /\ pc' = "value_iteration"
    /\ ret' = NoResult
    /\ UNCHANGED <<maze, pi>>

\* after value_iteration has returned, the caller invokes policy_iteration with
\* num_policy_evaluation = 1 on the same maze (lines 242-260); call.earlier keeps
\* the record value_iteration returned and call.max_error its tolerance
PolicyIterationAfter ==
    /\ pc = "done"
    /\ call.op = "value_iteration"
    /\ ret.tag = "ok"
    /\ "earlier" \notin DOMAIN call
    /\ call' = [op |-> "policy_iteration", num_policy_evaluation |-> 1,
                max_error |-> call.max_error, earlier |-> ret.val]
    /\ pi' = PILocals(maze)
    /\ pc' = "policy_iteration"
    /\ ret' = NoResult
    /\ UNCHANGED <<maze, vi>>


NextTwice ==
    \/ Next
    \/ ValueIterationAgain
    \/ PolicyIterationAfter

\* the calls of Spec, and a second solver call after value_iteration has returned
SpecTwice == Init /\ [][NextTwice]_vars

(***************************************************************************)
(* Properties                                                              *)
(***************************************************************************)
\* the call has ended and was a call of op
Ended(op) == pc = "done" /\ call.op = op

\* rc is a cell of the grid that is not a wall
NonWallCell(rc) ==
    /\ rc[1] \in 0..(Len(maze.grid) - 1)
    /\ rc[2] \in 0..(Len(maze.grid[1]) - 1)
    /\ maze.grid[rc[1] + 1][rc[2] + 1] # "w"

\* the four neighbours of a coordinate
Above(rc) == <<rc[1] - 1, rc[2]>>
Below(rc) == <<rc[1] + 1, rc[2]>>
LeftOf(rc) == <<rc[1], rc[2] - 1>>
RightOf(rc) == <<rc[1], rc[2] + 1>>

\* the neighbour an action intends, and the two neighbours orthogonal to it
IntendedNeighbour(rc, action) ==
    CASE action = MOVE_UP -> Above(rc)
      [] action = MOVE_DOWN -> Below(rc)
      [] action = MOVE_LEFT -> LeftOf(rc)
      [] action = MOVE_RIGHT -> RightOf(rc)

LateralNeighbours(rc, action) ==
    IF action \in {MOVE_UP, MOVE_DOWN} THEN {LeftOf(rc), RightOf(rc)}
    ELSE {Above(rc), Below(rc)}

\* C1: for a non-wall state and any of the four actions, the probabilities of the
\* outcomes get_next_states returns, added as floats, are exactly 1.0, and so are
\* the probabilities transition_model gives for the nominal keys of those outcomes.
C1_ProbabilitiesSumToOne ==
    (Ended("get_next_states") /\ call.state \in DOMAIN maze.states
        /\ call.action \in MazeAction) =>
        LET d == ret.val
            read(i) == transition_model(maze, call.state, call.action, d[i].nominal)
        IN  /\ F64Sum([i \in 1..Len(d) |-> d[i].probability]) = F64One
            /\ \A i \in 1..Len(d) : read(i).tag = "ok"
            /\ F64Sum([i \in 1..Len(d) |-> read(i).val]) = F64One

\* get_next_states has answered for a non-wall state, one outcome moving the agent
\* and another leaving it in place
C1_Witness ==
    /\ Ended("get_next_states")
    /\ call.action \in MazeAction
    /\ call.state \in DOMAIN maze.states
    /\ \E i, j \in 1..Len(ret.val) :
          ret.val[i].actual = call.state /\ ret.val[j].actual # call.state

\* C2: get_next_states returns exactly three outcomes under three distinct nominal
\* keys: the neighbour the action intends with probability 0.8 and the two
\* neighbours orthogonal to it with probability 0.1 each, whether or not the
\* outcome leaves the agent in place.
C2_ThreeNominalOutcomes ==
    (Ended("get_next_states") /\ call.action \in MazeAction) =>
        LET d == ret.val
        IN  /\ Len(d) = 3
            /\ Cardinality({ d[i].nominal : i \in 1..Len(d) }) = 3
            /\ \E i \in 1..Len(d) :
                  /\ d[i].nominal = IntendedNeighbour(call.state, call.action)
                  /\ d[i].probability = 8
            /\ \A lateral \in LateralNeighbours(call.state, call.action) :
                  \E i \in 1..Len(d) : d[i].nominal = lateral /\ d[i].probability = 1

\* get_next_states has answered for a non-wall state whose intended neighbour is
\* blocked: the 0.8 stays on the nominal key of an outcome that is a self-loop
C2_Witness ==
    /\ Ended("get_next_states")
    /\ call.state \in DOMAIN maze.states
    /\ call.action = MOVE_DOWN
    /\ \E i \in 1..Len(ret.val) :
          /\ ret.val[i].probability = 8
          /\ ret.val[i].nominal # call.state
          /\ ret.val[i].actual = call.state

\* C3: the 'actual' of each outcome is its nominal coordinate when that is a
\* non-wall cell of the grid and the originating state otherwise, in the answer of
\* get_next_states and in the table built at construction; so a state whose
\* intended and lateral neighbours are all walls or outside the grid, as the only
\* cell of a 1x1 grid is, keeps the agent in place in all three outcomes.
C3_ActualNextState ==
    (Ended("get_next_states") /\ call.action \in MazeAction) =>
        LET Corrected(state, d) ==
                \A i \in 1..Len(d) :
                    d[i].actual = IF NonWallCell(d[i].nominal) THEN d[i].nominal ELSE state
        IN  /\ Corrected(call.state, ret.val)
            /\ \A state \in DOMAIN maze.states :
                  Corrected(state, maze.states[state][call.action])
            /\ (\A i \in 1..Len(ret.val) : ~NonWallCell(ret.val[i].nominal)) =>
                  \A i \in 1..Len(ret.val) : ret.val[i].actual = call.state

\* get_next_states has answered for a non-wall state whose three neighbours are
\* blocked, one by a wall and one by the edge of the grid
C3_Witness ==
    /\ Ended("get_next_states")
    /\ call.action \in MazeAction
    /\ call.state \in DOMAIN maze.states
    /\ Len(ret.val) = 3
    /\ \A i \in 1..Len(ret.val) : ret.val[i].actual = call.state
    /\ \E i, j \in 1..Len(ret.val) :
          /\ ret.val[i].nominal \in (0..(maze.height - 1)) \X (0..(maze.width - 1))
          /\ ret.val[j].nominal \notin (0..(maze.height - 1)) \X (0..(maze.width - 1))

\* C4: transition_model returns the probability of the slot when the candidate is
\* one of the three nominal next coordinates of (state, action), and returns 0,
\* raising nothing, for every other candidate.
C4_TransitionModelDefaultsToZero ==
    (Ended("transition_model") /\ call.state \in DOMAIN maze.states
        /\ call.action \in MazeAction) =>
        LET nominal == { IntendedNeighbour(call.state, call.action) }
                           \cup LateralNeighbours(call.state, call.action)
        IN  /\ ret.tag = "ok"
            /\ ret.val = IF call.next_state = IntendedNeighbour(call.state, call.action) THEN 8
                         ELSE IF call.next_state \in nominal THEN 1
                         ELSE 0

\* C5: reward_function returns the reward of the cell's category for a non-wall
\* cell of the grid and raises for every other coordinate, a negative row or
\* column included.
C5_RewardFunctionRejectsInvalidState ==
    Ended("reward_function") =>
        IF NonWallCell(call.state)
        THEN ret = Ok(REWARD_MAPPING[maze.grid[call.state[1] + 1][call.state[2] + 1]])
        ELSE ret.tag = "raise"

\* the largest element of a finite set of naturals, 0 for the empty set
MaxOf(S) == IF S = {} THEN 0 ELSE CHOOSE x \in S : \A y \in S : y <= x

\* max over states of |new - old| for the locals a sweep leaves, over Unit(l.exp)
MaxUtilityChange(l) ==
    MaxOf({ Abs(l.new_utilities[s] - l.current_utilities[s]) : s \in DOMAIN l.new_utilities })

\* change / Unit(exp) < max_error * (1 - discount) / discount, for a discount > 0
BelowBound(change, exp) ==
    /\ maze.discount.num > 0
    /\ change * (call.max_error.den * maze.discount.num)
          < call.max_error.num * (maze.discount.den - maze.discount.num) * Unit(maze, exp)

\* value_iteration has returned its record
ValueIterationReturned == Ended("value_iteration") /\ ret.tag = "ok"

\* C6: value_iteration does not return before a sweep; a sweep is followed by the
\* return exactly when its maxUtilityChange (max over states of |new - old|) is
\* strictly below maxError*(1-discount)/discount, so the call returns after the
\* first such sweep and never after a sweep whose change is at or above the bound.
C6_ReturnsAtFirstSweepBelowBound ==
    [][/\ (pc = "idle" /\ call'.op = "value_iteration") =>
              pc' = "value_iteration" /\ vi'.num_iterations = 0
       /\ pc = "value_iteration" =>
              /\ vi'.num_iterations = vi.num_iterations + 1
              /\ (pc' = "done" /\ ret'.tag = "ok")
                     <=> BelowBound(MaxUtilityChange(vi'), vi'.exp)
              /\ (pc' = "done" /\ ret'.tag = "ok") =>
                     ret'.val.num_iterations = vi'.num_iterations]_vars

\* value_iteration has returned after a sweep that followed one it did not return
\* after
C6_Witness == ValueIterationReturned /\ ret.val.num_iterations >= 2 /\ maze.discount.num = 1

C8_DiscountOutsideUnitIntervalNeverSweeps ==
    (call.op = "value_iteration"
        /\ (maze.discount.num <= 0 \/ maze.discount.num >= maze.discount.den)) =>
        vi.num_iterations = 0

\* C9: value_iteration with max_error <= 0 reports an error immediately and does
\* not enter the sweep loop.
C9_NonPositiveMaxErrorNeverSweeps ==
    (call.op = "value_iteration" /\ call.max_error.num <= 0) => vi.num_iterations = 0

\* C10: policy_iteration with num_policy_evaluation < 1 is rejected at entry and
\* returns no result record.
C10_NoRecordForNumPolicyEvaluationBelowOne ==
    (call.op = "policy_iteration" /\ call.num_policy_evaluation < 1) =>
        ~(pc = "done" /\ ret.tag = "ok")

\* C11: get_next_states and transition_model raise an error for an action that is
\* not one of MOVE_UP, MOVE_DOWN, MOVE_LEFT, MOVE_RIGHT, and never answer as they
\* would for one of the four.
C11_UnrecognizedActionRejected ==
    (pc = "done" /\ call.op \in {"get_next_states", "transition_model"}
        /\ call.action \notin MazeAction) =>
        ret.tag = "raise"

\* policy_iteration has returned its record
PolicyIterationReturned == Ended("policy_iteration") /\ ret.tag = "ok"

\* C12: for num_policy_evaluation >= 1, policy_iteration does not return before a
\* loop; every outer loop runs exactly num_policy_evaluation evaluation rounds (each
\* round adds one entry per state to the trajectory and one step to the unit of the
\* utilities) and then the improvement pass on the evaluated utilities; the call
\* returns after the loop when the pass left every state's entry unchanged and
\* runs another loop when the pass changed an entry.
C12_ReturnsAtFirstUnchangedImprovement ==
    [][/\ (pc = "idle" /\ call'.op = "policy_iteration") => pc' = "policy_iteration"
       /\ (pc = "policy_iteration" /\ call.num_policy_evaluation >= 1) =>
              /\ pi'.exp = pi.exp + call.num_policy_evaluation
              /\ \A s \in DOMAIN maze.states :
                    Len(pi'.iteration_utilities[s])
                        = Len(pi.iteration_utilities[s]) + call.num_policy_evaluation
              /\ pi'.policy = _policy_improvement(maze, pi.policy, pi'.utilities).updated_policy
              /\ IF pi'.policy = pi.policy
                 THEN pc' = "done" /\ ret'.tag = "ok" /\ ret'.val.optimal_policy = pi'.policy
                 ELSE pc' = "policy_iteration" /\ ret' = NoResult]_vars

\* policy_iteration has returned after a loop that followed one whose improvement
\* pass changed the policy
C12_Witness ==
    /\ PolicyIterationReturned
    /\ call.num_policy_evaluation >= 1
    /\ ret.val.num_iterations >= 2 * call.num_policy_evaluation
    /\ \E s \in DOMAIN maze.states : ret.val.optimal_policy[s] # MOVE_UP

\* the utility of state s after `rounds` evaluation rounds of a loop that starts
\* from the locals l, over Unit(l.exp + k)
RoundUtility(l, k, rounds, s) ==
    _policy_evaluation(maze, l.policy, l.utilities, rounds, l.exp).current_utilities[s]
        * Pow(UnitStep(maze), k - rounds)

\* C13 as stated: on return, each state's iteration_utilities has as many entries
\* as num_iterations (n*k for n loops of k rounds), and no other entries.
C13_TrajectoryHasOneEntryPerRound ==
    (PolicyIterationReturned /\ call.num_policy_evaluation >= 1) =>
        \A s \in DOMAIN maze.states :
            Len(ret.val.iteration_utilities[s]) = ret.val.num_iterations

\* C13: for k = num_policy_evaluation >= 1, num_iterations starts at 0 and every
\* outer loop adds k to it, so it is n*k after n loops; each state's
\* iteration_utilities starts as the list [0] of the initial utility and every
\* loop appends the k utilities of its k evaluation rounds, in order, so on
\* return it is the initial 0 followed by the n*k utilities (n*k + 1 entries).
C13_TrajectoryIsInitialZeroThenRounds ==
    [][/\ (pc = "idle" /\ call'.op = "policy_iteration") =>
              /\ pi'.num_iterations = 0
              /\ \A s \in DOMAIN maze.states : pi'.iteration_utilities[s] = <<0>>
       /\ (pc = "policy_iteration" /\ call.num_policy_evaluation >= 1) =>
              LET k == call.num_policy_evaluation
              IN  /\ pi'.num_iterations = pi.num_iterations + k
                  /\ \A s \in DOMAIN maze.states :
                        /\ Len(pi.iteration_utilities[s]) = pi.num_iterations + 1
                        /\ pi'.iteration_utilities[s] =
                              [i \in 1..Len(pi.iteration_utilities[s]) |->
                                  pi.iteration_utilities[s][i] * Pow(UnitStep(maze), k)]
                                  \o [r \in 1..k |-> RoundUtility(pi, k, r, s)]
                  /\ pc' = "done" =>
                        /\ ret'.val.num_iterations = pi'.num_iterations
                        /\ ret'.val.iteration_utilities = pi'.iteration_utilities]_vars

\* policy_iteration has returned after two loops of two evaluation rounds
C13_Witness ==
    /\ PolicyIterationReturned
    /\ call.num_policy_evaluation = 2
    /\ ret.val.num_iterations = 4
    /\ \E s \in DOMAIN maze.states : Len(ret.val.iteration_utilities[s]) = 5

TightestMaxError ==
    CHOOSE e \in MaxErrors :
        e.num > 0 /\ \A f \in MaxErrors : f.num > 0 => e.num * f.den <= f.num * e.den

\* C15: on the same model, policy_iteration with num_policy_evaluation = 1 returns,
\* for every state, the action of the policy that value_iteration returned when
\* run to the tightest tolerance.
C15_PolicyIterationAgreesWithValueIteration ==
    (PolicyIterationReturned /\ "earlier" \in DOMAIN call
        /\ call.max_error = TightestMaxError) =>
        \A s \in DOMAIN maze.states :
            ret.val.optimal_policy[s] = call.earlier.optimal_policy[s]

\* the cells of GRID that are not walls
NonWallCellsOfGRID ==
    { rc \in (0..5) \X (0..5) : GRID[rc[1] + 1][rc[2] + 1] # "w" }

\* C16: on the configured GRID with the configured rewards, discount 0.99 and
\* max_error 78, a run of value_iteration that has started eventually returns, with
\* num_iterations > 0 and a policy whose keys are exactly the 31 non-wall cells,
\* each mapped to one of the four actions.
C16_ConfiguredRunTerminates ==
    (pc = "value_iteration" /\ maze.grid = GRID /\ call.max_error = MAX_ERROR) ~>
        /\ ValueIterationReturned
        /\ ret.val.num_iterations > 0
        /\ Cardinality(NonWallCellsOfGRID) = 31
        /\ DOMAIN ret.val.optimal_policy = NonWallCellsOfGRID
        /\ \A s \in NonWallCellsOfGRID : ret.val.optimal_policy[s] \in MazeAction

\* the configured run has returned after 25 sweeps
C16_Witness ==
    /\ maze.grid = GRID
    /\ call = [op |-> "value_iteration", max_error |-> MAX_ERROR]
    /\ ValueIterationReturned
    /\ ret.val.num_iterations = 25

\* n * (ProbDen * d)^e for a factor d: r * ProbDen^e * d^e as a numerator
ScaledPower(self, n, d, e) ==
    NumScaleBy(self, NumScaleBy(self, Num(self, n), ProbDen, e), d, e)

\* on the grid of one cell: the utility u over Unit(e) is R(s) * (1 - discount^e) /
\* (1 - discount); both sides are multiplied by Unit(e) * (den - num)
SingleStateClosedForm(self, u, e) ==
    NumScale(self, self.discount.den - self.discount.num, u) =
        NumSub(self,
               ScaledPower(self, reward_function(self, <<0, 0>>).val * self.discount.den,
                           self.discount.den, e),
               ScaledPower(self, reward_function(self, <<0, 0>>).val * self.discount.den,
                           self.discount.num, e))

\* on the grid of one cell: |u - R(s) / (1 - discount)| <= max_error for a utility u
\* over Unit(e); both sides are multiplied by Unit(e) * (den - num) * max_error.den
SingleStateWithinMaxError(self, u, e, max_error) ==
    ~NumLess(self,
             NumScaleBy(self,
                 Num(self, max_error.num * (self.discount.den - self.discount.num) * RewDen),
                 UnitStep(self), e),
             NumScale(self, max_error.den,
                 NumAbs(self,
                     NumSub(self,
                            NumScale(self, self.discount.den - self.discount.num, u),
                            NumScaleBy(self,
                                Num(self, reward_function(self, <<0, 0>>).val
                                              * self.discount.den),
                                UnitStep(self), e)))))

\* C17: on the grid of one white cell with a discount in (0, 1), the utility
\* value_iteration has computed after n sweeps is R(s) * (1 - discount^n) /
\* (1 - discount), and the utility it returns differs from R(s) / (1 - discount) by
\* no more than max_error.
C17_SingleStateUtilityConverges ==
    (maze.grid = OneCellGrid /\ call.op = "value_iteration") =>
        /\ SingleStateClosedForm(maze, vi.new_utilities[<<0, 0>>], vi.num_iterations)
        /\ ValueIterationReturned =>
               SingleStateWithinMaxError(maze, ret.val.utilities[<<0, 0>>], ret.val.exp,
                                         call.max_error)

\* C19: every step of a run of value_iteration or policy_iteration (its entry, each
\* pass of its loop, its return) leaves the model as it was: the state set, the
\* table state -> action -> next states, the grid, the reward mapping and the
\* discount.
C19_SolversLeaveModelUnchanged ==
    [][(pc \in {"value_iteration", "policy_iteration"}
          \/ pc' \in {"value_iteration", "policy_iteration"}) =>
            /\ DOMAIN maze'.states = DOMAIN maze.states
            /\ maze'.states = maze.states
            /\ maze'.grid = maze.grid
            /\ maze'.reward_mapping = maze.reward_mapping
            /\ maze'.discount = maze.discount
            /\ maze' = maze]_vars

\* policy_iteration has returned after value_iteration had returned, on a model that
\* is still the one its constructor builds from the grid and the discount
C19_Witness ==
    /\ PolicyIterationReturned
    /\ "earlier" \in DOMAIN call
    /\ call.earlier.num_iterations >= 2
    /\ maze = NewMaze(maze.grid, REWARD_MAPPING, maze.discount)

\* the two neighbours orthogonal to an action, in a fixed order
LateralPair(rc, action) ==
    IF action \in {MOVE_UP, MOVE_DOWN} THEN <<LeftOf(rc), RightOf(rc)>>
    ELSE <<Above(rc), Below(rc)>>

\* transition_model(s, a, o) * U[actual(o)] for a nominal outcome o of (s, a): the
\* probability is read under the nominal coordinate, the utility where the agent
\* ends up, which is s when o is a wall or outside the grid
DoubleKeyedTerm(s, a, o, U) ==
    NumScale(maze, transition_model(maze, s, a, o).val,
             U[IF NonWallCell(o) THEN o ELSE s])

DoubleKeyedSum(s, a, U) ==
    NumAdd(maze, DoubleKeyedTerm(s, a, IntendedNeighbour(s, a), U),
           NumAdd(maze, DoubleKeyedTerm(s, a, LateralPair(s, a)[1], U),
                        DoubleKeyedTerm(s, a, LateralPair(s, a)[2], U)))

\* the utilities the running or ended solver call reads
SolverUtilities == IF call.op = "value_iteration" THEN vi.current_utilities ELSE pi.utilities

\* C20: for every state s, action a and the utilities U of a solver,
\* _get_expected_utility(mdp, s, a, U) is the sum over the three nominal outcomes o
\* of (s, a) of transition_model(s, a, o) * U[actual(o)]; a blocked outcome
\* contributes its probability times U[s].
C20_ExpectedUtilityIsDoubleKeyedSum ==
    (call.op \in {"value_iteration", "policy_iteration"}) =>
        \A s \in DOMAIN maze.states, a \in MazeAction :
            /\ \A o \in {IntendedNeighbour(s, a), LateralPair(s, a)[1], LateralPair(s, a)[2]} :
                   transition_model(maze, s, a, o).tag = "ok"
            /\ _get_expected_utility(maze, s, a, SolverUtilities)
                   = DoubleKeyedSum(s, a, SolverUtilities)

\* a sweep of value_iteration has left a state with a utility other than 0 whose
\* upper neighbour is blocked and which has a neighbour cell with another utility
C20_Witness ==
    /\ call.op = "value_iteration"
    /\ pc = "value_iteration"
    /\ \E s \in DOMAIN maze.states :
          /\ ~NonWallCell(Above(s))
          /\ vi.current_utilities[s] # 0
          /\ \E o \in {LeftOf(s), RightOf(s), Below(s)} :
                 NonWallCell(o) /\ vi.current_utilities[o] # vi.current_utilities[s]

(***************************************************************************)
(* C18                                                                     *)
(***************************************************************************)
\* the grid has two cells, none of them a wall
TwoOpenCells(self) == self.grid \in TwoCellGrids

\* the discount lies strictly between 0 and 1
OpenDiscount(self) ==
    IF Binary(self)
    THEN FloatLess(FloatZero, self.discount) /\ FloatLess(self.discount, FloatOfInt(1))
    ELSE 0 < self.discount.num /\ self.discount.num < self.discount.den

\* a sweep after the first one, on a grid of two open cells with an open discount
LaterSweep ==
    /\ pc = "value_iteration"
    /\ vi.num_iterations >= 1
    /\ vi'.num_iterations = vi.num_iterations + 1
    /\ TwoOpenCells(maze)
    /\ OpenDiscount(maze)

\* C18: on a grid of two cells without a wall and with a discount strictly between
\* 0 and 1, every sweep of value_iteration after the first leaves a
\* max_utility_change strictly smaller than the one the sweep before it left.  The
\* change of the sweep before is over Unit(vi.exp), the new one over
\* Unit(vi.exp + 1).
C18_MaxUtilityChangeStrictlyDecreases ==
    [][LaterSweep =>
          NumLess(maze, vi'.max_utility_change,
                  NumScale(maze, UnitStep(maze), vi.max_utility_change))]_vars

(***************************************************************************)
(* C21                                                                     *)
(***************************************************************************)
\* the order in which the actions of a state are tried
ActionOrder == <<MOVE_UP, MOVE_DOWN, MOVE_LEFT, MOVE_RIGHT>>

\* action a has the largest expected utility of the four at state s under U
AttainsMaximum(s, a, U) ==
    \A other \in MazeAction :
        ~NumLess(maze, _get_expected_utility(maze, s, a, U),
                 _get_expected_utility(maze, s, other, U))

\* the place in ActionOrder of the first action that attains the maximum
FirstMaximiser(s, U) ==
    CHOOSE i \in 1..4 :
        /\ AttainsMaximum(s, ActionOrder[i], U)
        /\ \A j \in 1..(i - 1) : ~AttainsMaximum(s, ActionOrder[j], U)

\* reward(s) + discount * expectedUtility(s, a, U) for utilities U over Unit(exp),
\* as a numerator over Unit(exp + 1)
RewardPlusDiscounted(s, a, U, exp) ==
    NumAdd(maze,
           NumScaleBy(maze, Num(maze, maze.reward_mapping[maze.grid[s[1] + 1][s[2] + 1]]),
                      ProbDen * maze.discount.den, exp + 1),
           NumScale(maze, maze.discount.num, _get_expected_utility(maze, s, a, U)))

\* the sweeps of value_iteration are the calls of _bellman_equation: a sweep has
\* stored its results in new_utilities and optimal_policy
SweepStored == call.op = "value_iteration" /\ vi.num_iterations >= 1

\* C21: _bellman_equation(mdp, s, U) returns reward(s) + discount * the largest of
\* the expected utilities of the four actions, paired with the first action in the
\* order UP, DOWN, LEFT, RIGHT that attains it, and never with None.  The sweep
\* read the utilities one exponent below: vi.current_utilities holds them over
\* Unit(vi.exp), and the stored utility is compared over Unit(vi.exp + 1).
C21_BackupPairsMaximumWithFirstMaximiser ==
    SweepStored =>
        \A s \in DOMAIN maze.states :
            /\ vi.optimal_policy[s] = ActionOrder[FirstMaximiser(s, vi.current_utilities)]
            /\ vi.optimal_policy[s] # None
            /\ NumScale(maze, ProbDen * maze.discount.den, vi.new_utilities[s])
                  = RewardPlusDiscounted(s, vi.optimal_policy[s], vi.current_utilities, vi.exp)

\* a sweep has stored, for some state, an action other than UP with which a later
\* action ties for the maximum, under utilities that are not all equal
C21_Witness ==
    /\ SweepStored
    /\ \E s \in DOMAIN maze.states, i \in 2..3 :
          /\ vi.optimal_policy[s] = ActionOrder[i]
          /\ \E j \in (i + 1)..4 : AttainsMaximum(s, ActionOrder[j], vi.current_utilities)
          /\ ~AttainsMaximum(s, MOVE_UP, vi.current_utilities)

(***************************************************************************)
(* C22                                                                     *)
(***************************************************************************)
\* a sequence in the opposite order
ReverseOf(seq) == [i \in 1..Len(seq) |-> seq[Len(seq) + 1 - i]]

\* a step of the sweep loop of value_iteration
SweepStep ==
    /\ pc = "value_iteration"
    /\ vi'.num_iterations = vi.num_iterations + 1

\* C22: within one sweep of value_iteration the backup of every state reads the
\* utilities as they were when the sweep started (U <- U' of the sweep before, or
\* the zeros), never a utility the sweep has written for a state visited earlier;
\* so the utilities and the policy the sweep leaves are those of the backups of
\* that snapshot state by state, and visiting the states in the opposite order
\* leaves the same ones.
C22_SweepReadsOnlyItsSnapshot ==
    [][SweepStep =>
          /\ \A s \in DOMAIN maze.states :
                 /\ vi'.new_utilities[s]
                        = _bellman_equation(maze, s, vi.new_utilities, vi.exp).utility
                 /\ vi'.optimal_policy[s]
                        = _bellman_equation(maze, s, vi.new_utilities, vi.exp).action
          /\ \E swept \in {SweepFrom(maze, ReverseOf(Keys(maze)), 1, VISweepStart(maze, vi))} :
                 /\ swept.new_utilities = vi'.new_utilities
                 /\ swept.optimal_policy = vi'.optimal_policy
                 /\ swept.max_utility_change = vi'.max_utility_change]_vars

\* two cells next to each other
Adjacent(s, t) == Abs(s[1] - t[1]) + Abs(s[2] - t[2]) = 1

\* a sweep after the first has given a new utility to a state that is visited
\* before a state next to it
C22_Witness ==
    /\ call.op = "value_iteration"
    /\ vi.num_iterations >= 2
    /\ \E i, j \in 1..Len(Keys(maze)) :
          /\ i < j
          /\ Adjacent(Keys(maze)[i], Keys(maze)[j])
          /\ vi.new_utilities[Keys(maze)[i]] # vi.current_utilities[Keys(maze)[i]]

(***************************************************************************)
(* C23                                                                     *)
(***************************************************************************)
\* U_i of the evaluation of `policy` that starts from the utilities U over
\* Unit(exp): U_0 is U, and U_i(s) is reward(s) + discount * the expected utility
\* of the action policy[s] under U_(i-1), over Unit(exp + i)
RECURSIVE RoundValues(_, _, _, _)
RoundValues(policy, U, exp, i) ==
    IF i <= 0 THEN U
    ELSE [s \in DOMAIN maze.states |->
             RewardPlusDiscounted(s, policy[s], RoundValues(policy, U, exp, i - 1),
                                  exp + i - 1)]

\* a pass of the loop of policy_iteration with one or more evaluation rounds
EvaluationStep ==
    /\ pc = "policy_iteration"
    /\ call.num_policy_evaluation >= 1
    /\ pi'.exp = pi.exp + call.num_policy_evaluation

\* C23: _policy_evaluation with k rounds computes in round i, for every state s,
\* U_i(s) = reward(s) + discount * expectedUtility(s, policy(s), U_(i-1)), the
\* action being the one of the policy and every state reading the same U_(i-1);
\* it returns U_k and the list U_1(s), ..., U_k(s) of every state, and leaves the
\* policy and the utilities it was given as they were.
C23_EvaluationRoundsFollowThePolicy ==
    [][EvaluationStep =>
          /\ pi'.utilities
                 = RoundValues(pi.policy, pi.utilities, pi.exp, call.num_policy_evaluation)
          /\ \A s \in DOMAIN maze.states, i \in 1..call.num_policy_evaluation :
                 pi'.iteration_utilities[s][Len(pi.iteration_utilities[s]) + i]
                     = NumScaleBy(maze, RoundValues(pi.policy, pi.utilities, pi.exp, i)[s],
                                  ProbDen * maze.discount.den,
                                  call.num_policy_evaluation - i)
          /\ \E evaluated \in {_policy_evaluation(maze, pi.policy, pi.utilities,
                                                   call.num_policy_evaluation, pi.exp)} :
                 /\ evaluated.policy = pi.policy
                 /\ evaluated.utilities = pi.utilities
                 /\ evaluated.current_utilities = pi'.utilities]_vars

\* a second pass of two evaluation rounds has acted on a policy that is not UP
\* everywhere and has left utilities that differ between states
C23_Witness ==
    /\ call.op = "policy_iteration"
    /\ call.num_policy_evaluation = 2
    /\ pi.num_iterations >= 4
    /\ \E s, t \in DOMAIN maze.states :
          pi.policy[s] # MOVE_UP /\ pi.utilities[s] # pi.utilities[t]

(***************************************************************************)
(* C24                                                                     *)
(***************************************************************************)
\* some action has a strictly larger expected utility at s under U than action a
StrictlyBettered(s, a, U) ==
    \E other \in MazeAction :
        NumLess(maze, _get_expected_utility(maze, s, a, U),
                _get_expected_utility(maze, s, other, U))

\* C24: policy_iteration starts from the policy that is UP in every state.  The
\* improvement pass of a loop, run on the utilities the evaluation returned,
\* replaces the entry of a state by the greedy action if and only if the expected
\* utility of the greedy action is strictly greater than that of the state's
\* entry; an entry that ties with the maximum is kept; and the pass reports
\* "unchanged" exactly when it replaced no entry.
C24_ImprovementReplacesOnlyOnStrictGain ==
    [][/\ (pc = "idle" /\ call'.op = "policy_iteration") =>
              \A s \in DOMAIN maze.states : pi'.policy[s] = MOVE_UP
       /\ EvaluationStep =>
              /\ \A s \in DOMAIN maze.states :
                     IF StrictlyBettered(s, pi.policy[s], pi'.utilities)
                     THEN /\ pi'.policy[s] = ActionOrder[FirstMaximiser(s, pi'.utilities)]
                          /\ pi'.policy[s] # pi.policy[s]
                     ELSE pi'.policy[s] = pi.policy[s]
              /\ pi'.unchanged
                     <=> (\A s \in DOMAIN maze.states :
                             ~StrictlyBettered(s, pi.policy[s], pi'.utilities))
              /\ pi'.unchanged <=> (pi'.policy = pi.policy)]_vars

\* an improvement pass has left a policy in which one state has an entry other
\* than UP and another state keeps an entry that ties with the maximum without
\* being the first action to attain it
C24_Witness ==
    /\ call.op = "policy_iteration"
    /\ call.num_policy_evaluation >= 1
    /\ pi.num_iterations >= 1
    /\ \E s, t \in DOMAIN maze.states :
          /\ pi.policy[s] # MOVE_UP
          /\ AttainsMaximum(t, pi.policy[t], pi.utilities)
          /\ ActionOrder[FirstMaximiser(t, pi.utilities)] # pi.policy[t]

(***************************************************************************)
(* C25                                                                     *)
(***************************************************************************)
\* C25: for every non-wall state and every action the outcomes the constructor
\* stored in states[state][action] are the ones get_next_states(state, action)
\* returns when a solver calls it afresh: three nominal slots, under each of which
\* transition_model finds the probability of that slot.
C25_TableEqualsFreshOutcomes ==
    \A state \in DOMAIN maze.states, action \in MazeAction :
        \E fresh \in {get_next_states(maze, state, action)} :
            /\ maze.states[state][action] = fresh
            /\ Len(fresh) = 3
            /\ \A i \in 1..3 :
                   transition_model(maze, state, action, fresh[i].nominal)
                       = Ok(fresh[i].probability)

\* a solver has run a pass on a maze with a state that has both a neighbour cell
\* and a neighbour that is a wall of the grid
C25_Witness ==
    /\ \/ call.op = "value_iteration" /\ vi.num_iterations >= 1
       \/ call.op = "policy_iteration" /\ pi.num_iterations >= 1
    /\ \E state \in DOMAIN maze.states :
          \E o, w \in {Above(state), Below(state), LeftOf(state), RightOf(state)} :
             /\ o \in DOMAIN maze.states
             /\ w \in (0..(maze.height - 1)) \X (0..(maze.width - 1))
             /\ w \notin DOMAIN maze.states

(***************************************************************************)
(* C26                                                                     *)
(***************************************************************************)
\* C26: when value_iteration returns, 'optimal_policy' has an entry for every
\* non-wall state and for no other key, no entry is None, and each entry is the
\* first action in the order UP, DOWN, LEFT, RIGHT whose expected utility under the
\* returned 'utilities' is the largest of the four.
C26_ReturnedPolicyIsGreedyForReturnedUtilities ==
    ValueIterationReturned =>
        /\ DOMAIN ret.val.optimal_policy = possible_states(maze.grid)
        /\ DOMAIN ret.val.utilities = possible_states(maze.grid)
        /\ \A s \in possible_states(maze.grid) :
              /\ ret.val.optimal_policy[s] # None
              /\ ret.val.optimal_policy[s] \in MazeAction
              /\ ret.val.optimal_policy[s]
                     = ActionOrder[FirstMaximiser(s, ret.val.utilities)]

\* value_iteration has returned, after two or more sweeps, a policy with an action
\* other than UP at a state where the first maximiser under the values of the last
\* sweep's backup, which are not returned, is another action
C26_Witness ==
    /\ ValueIterationReturned
    /\ ret.val.num_iterations >= 2
    /\ \E s \in DOMAIN maze.states :
          /\ ret.val.optimal_policy[s] # MOVE_UP
          /\ ret.val.optimal_policy[s] # ActionOrder[FirstMaximiser(s, vi.new_utilities)]

(***************************************************************************)
(* C27                                                                     *)
(***************************************************************************)
\* the pass of the loop of policy_iteration after which the call returns
ReturningPass == pc = "policy_iteration" /\ pc' = "done" /\ ret'.tag = "ok"

\* C27: when policy_iteration returns, the action of the returned policy has, at
\* every state, the largest expected utility of the four actions under the
\* returned 'utilities', and the returned 'utilities' are what the evaluation of
\* the last pass computed, in its num_policy_evaluation rounds, under that same
\* policy from the utilities the pass started with.
C27_ReturnedPolicyIsStableUnderItsEvaluation ==
    [][ReturningPass =>
          /\ DOMAIN ret'.val.optimal_policy = DOMAIN maze.states
          /\ \A s \in DOMAIN maze.states :
                 /\ AttainsMaximum(s, ret'.val.optimal_policy[s], ret'.val.utilities)
                 /\ ~StrictlyBettered(s, ret'.val.optimal_policy[s], ret'.val.utilities)
          /\ ret'.val.utilities
                 = RoundValues(ret'.val.optimal_policy, pi.utilities, pi.exp,
                               call.num_policy_evaluation)]_vars

\* policy_iteration has returned after two or more passes a policy that is not UP
\* everywhere and that has, at some state, an action that is not the first of the
\* maximisers
C27_Witness ==
    /\ PolicyIterationReturned
    /\ ret.val.num_iterations >= 2 * call.num_policy_evaluation
    /\ \E s, t \in DOMAIN maze.states :
          /\ ret.val.optimal_policy[s] # MOVE_UP
          /\ ret.val.optimal_policy[t]
                 # ActionOrder[FirstMaximiser(t, ret.val.utilities)]

(***************************************************************************)
(* C28                                                                     *)
(***************************************************************************)
\* C28: after every completed sweep of value_iteration the list of every state in
\* iteration_utilities has exactly num_iterations entries, the first of which is
\* the initial 0 and the last of which is the utility the sweep read for the
\* state; when the call returns, the record holds these lists, and the last entry
\* of each is the returned utility of its state.
C28_OneTrajectoryEntryPerSweep ==
    SweepStored =>
        /\ DOMAIN vi.iteration_utilities = DOMAIN maze.states
        /\ \A s \in DOMAIN maze.states :
              /\ Len(vi.iteration_utilities[s]) = vi.num_iterations
              /\ vi.iteration_utilities[s][1] = Num(maze, 0)
              /\ vi.iteration_utilities[s][vi.num_iterations] = vi.current_utilities[s]
        /\ ValueIterationReturned =>
              /\ ret.val.iteration_utilities = vi.iteration_utilities
              /\ ret.val.num_iterations = vi.num_iterations
              /\ \A s \in DOMAIN maze.states :
                    PyIndex(ret.val.iteration_utilities[s], -1) = Ok(ret.val.utilities[s])

\* value_iteration has returned after three or more sweeps lists whose last
\* entries are not 0 and differ from the entries before them
C28_Witness ==
    /\ ValueIterationReturned
    /\ ret.val.num_iterations >= 3
    /\ \A s \in DOMAIN maze.states :
          /\ ret.val.iteration_utilities[s][ret.val.num_iterations] # Num(maze, 0)
          /\ ret.val.iteration_utilities[s][ret.val.num_iterations]
                 # ret.val.iteration_utilities[s][ret.val.num_iterations - 1]

====
